---- MODULE Spec2Model ----
(***************************************************************************)
(* Project-Management: the model layer (src/model/model.js and the detail  *)
(* projections of src/controller/ChannelController.js) and the controllers *)
(* (PersonController, RemainderController) with their promise chain.       *)
(*                                                                         *)
(* Conventions.  Ids are naturals and 0 stands for an absent value         *)
(* (undefined / null): the code tests ids by truthiness, so 0 and          *)
(* undefined take the same branches.  Text columns that are sorted (name,  *)
(* remainder_date, reminder_time) are modelled by their rank in collation  *)
(* order, 1.., with 0 for an absent value (bound as NULL by the driver);   *)
(* the other text columns are numbered the same way.  The code tests the   *)
(* fields of a payload by truthiness too, so 0 also stands for the falsy   *)
(* values '', 0 and null.                                                  *)
(*                                                                         *)
(* The driver (better-sqlite3) is synchronous: a model function reads or   *)
(* writes the store at the moment it is called.  Every `await` is a        *)
(* suspension point at which other callbacks and the caller may run.       *)
(***************************************************************************)
EXTENDS Integers, Sequences, FiniteSets, TLC

(***************************************************************************)
(* Bounds of the model                                                     *)
(***************************************************************************)
MaxCalls == 3           \* calls made on the controllers by their user
MaxModelCalls == 1      \* calls made on the model layer directly, on each store

(***************************************************************************)
(* Program constants                                                       *)
(***************************************************************************)
DefaultLimit == 50

Controllers == {"A", "B"}
Kind(c) == IF c = "A" THEN "Person" ELSE "Remainder"
Sorts == {"ASC", "DESC"}

\* The values the caller passes in the model
NewNames == {2}
TaskIds == {0, 1}
RowIds == {2}
NewSorts == {"DESC"}
FilterArgs(c) == IF Kind(c) = "Person" THEN {[filterEmptyTasks |-> TRUE]} ELSE {[taskId |-> 1]}

Min(a, b) == IF a < b THEN a ELSE b

(***************************************************************************)
(* The store: the four tables of the schema, and for each table the        *)
(* highest id ever assigned (AUTOINCREMENT never reuses an id).            *)
(***************************************************************************)
TaskExists(db, id) == \E t \in db.task : t.id = id

PersonExists(db, id) == \E p \in db.person : p.id = id

RemainderExists(db, id) == \E r \in db.remainder : r.id = id

Ok(db) == [ok |-> TRUE, db |-> db, err |-> "none"]

Fail(db, e) == [ok |-> FALSE, db |-> db, err |-> e]

\* INSERT INTO person (name, task_id): name is NOT NULL, task_id references task(id)
InsertPerson(db, name, task_id) ==
    IF name = 0 THEN Fail(db, "constraint")
    ELSE IF task_id # 0 /\ ~TaskExists(db, task_id) THEN Fail(db, "constraint")
    ELSE Ok([db EXCEPT !.person = @ \cup {[id |-> db.seq.person + 1, name |-> name, task_id |-> task_id]},
                       !.seq.person = @ + 1])

\* UPDATE person SET task_id = @task_id [name = @name ]WHERE id = @id
\* With a name the two assignments are joined without a comma and the
\* statement does not prepare; without one, task_id is bound as given
\* (NULL when omitted) and no row matching is not an error.
UpdatePerson(db, id, name, task_id) ==
    IF name # 0 THEN Fail(db, "syntax")
    ELSE IF task_id # 0 /\ PersonExists(db, id) /\ ~TaskExists(db, task_id) THEN Fail(db, "constraint")
    ELSE Ok([db EXCEPT !.person = {IF p.id = id THEN [p EXCEPT !.task_id = task_id] ELSE p : p \in @}])

addOrUpdatePerson(db, p) ==
    IF p.id # 0 THEN UpdatePerson(db, p.id, p.name, p.task_id)
    ELSE InsertPerson(db, p.name, p.task_id)

\* DELETE FROM person WHERE id = ?: task.assigned_to references person(id)
removePerson(db, id) ==
    IF id = 0 THEN Fail(db, "validation")
    ELSE IF ~PersonExists(db, id) THEN Fail(db, "notfound")
    ELSE IF \E t \in db.task : t.assigned_to = id THEN Fail(db, "constraint")
    ELSE Ok([db EXCEPT !.person = {p \in @ : p.id # id}])

\* INSERT INTO remainder (<the supplied columns>): the three columns are
\* NOT NULL and task_id references task(id)
InsertRemainder(db, task_id, remainder_date, reminder_time) ==
    IF remainder_date = 0 \/ reminder_time = 0 THEN Fail(db, "constraint")
    ELSE IF ~TaskExists(db, task_id) THEN Fail(db, "constraint")
    ELSE Ok([db EXCEPT !.remainder = @ \cup {[id |-> db.seq.remainder + 1, task_id |-> task_id,
                                              remainder_date |-> remainder_date,
                                              reminder_time |-> reminder_time]},
                       !.seq.remainder = @ + 1])

\* UPDATE remainder SET task_id = @task_id[, remainder_date = ..][, reminder_time = ..] WHERE id = @id
UpdateRemainder(db, id, task_id, remainder_date, reminder_time) ==
    IF RemainderExists(db, id) /\ ~TaskExists(db, task_id) THEN Fail(db, "constraint")
    ELSE Ok([db EXCEPT !.remainder =
                {IF r.id = id
                 THEN [r EXCEPT !.task_id = task_id,
                                !.remainder_date = IF remainder_date # 0 THEN remainder_date ELSE @,
                                !.reminder_time = IF reminder_time # 0 THEN reminder_time ELSE @]
                 ELSE r : r \in @}])

addOrUpdateRemainder(db, r) ==
    IF r.task_id = 0 THEN Fail(db, "validation")
    ELSE IF r.id # 0 THEN UpdateRemainder(db, r.id, r.task_id, r.remainder_date, r.reminder_time)
    ELSE InsertRemainder(db, r.task_id, r.remainder_date, r.reminder_time)

removeRemainder(db, id) ==
    IF id = 0 THEN Fail(db, "validation")
    ELSE IF ~RemainderExists(db, id) THEN Fail(db, "notfound")
    ELSE Ok([db EXCEPT !.remainder = {r \in @ : r.id # id}])

ChannelExists(db, id) == \E c \in db.channel : c.id = id

\* The columns of task a payload can set
TaskFields == {"title", "assigned_to", "related_channel", "task_status", "start_date", "deadline"}

\* Variant: every column is set, given or not
SetClauses_All(t) == TaskFields

\* if (title) setClauses.push(..) ...: the fields of the payload that are truthy
SetClauses(t) == {f \in TaskFields : t[f] # 0}

\* INSERT INTO task (title, ..., deadline): title is NOT NULL, assigned_to
\* references person(id), related_channel references channel(id)
InsertTask(db, t) ==
    IF t.title = 0 THEN Fail(db, "constraint")
    ELSE IF t.assigned_to # 0 /\ ~PersonExists(db, t.assigned_to) THEN Fail(db, "constraint")
    ELSE IF t.related_channel # 0 /\ ~ChannelExists(db, t.related_channel) THEN Fail(db, "constraint")
    ELSE Ok([db EXCEPT !.task = @ \cup {[t EXCEPT !.id = db.seq.task + 1]},
                       !.seq.task = @ + 1])

\* Variant: the update has no WHERE clause
UpdateTask_NoWhere(db, t) ==
    IF TaskExists(db, t.id) /\ t.assigned_to # 0 /\ ~PersonExists(db, t.assigned_to)
    THEN Fail(db, "constraint")
    ELSE IF TaskExists(db, t.id) /\ t.related_channel # 0 /\ ~ChannelExists(db, t.related_channel)
    THEN Fail(db, "constraint")
    ELSE Ok([db EXCEPT !.task =
                {[f \in DOMAIN row |-> IF f \in SetClauses(t) THEN t[f] ELSE row[f]] : row \in @}])

\* UPDATE task SET <the set clauses> WHERE id = @id.  A statement that
\* matches no row changes nothing and is not an error.
UpdateTask(db, t) ==
    IF TaskExists(db, t.id) /\ t.assigned_to # 0 /\ ~PersonExists(db, t.assigned_to)
    THEN Fail(db, "constraint")
    ELSE IF TaskExists(db, t.id) /\ t.related_channel # 0 /\ ~ChannelExists(db, t.related_channel)
    THEN Fail(db, "constraint")
    ELSE Ok([db EXCEPT !.task =
                {IF row.id = t.id
                 THEN [f \in DOMAIN row |-> IF f \in SetClauses(t) THEN t[f] ELSE row[f]]
                 ELSE row : row \in @}])

addOrUpdateTask(db, t) ==
    IF t.id # 0
    THEN IF SetClauses(t) = {} THEN Fail(db, "validation") ELSE UpdateTask(db, t)
    ELSE InsertTask(db, t)

\* Variant: the insert does not advance the id sequence
InsertChannel_SameId(db, channel_name) ==
    IF channel_name = 0 THEN Fail(db, "constraint")
    ELSE Ok([db EXCEPT !.channel = @ \cup {[id |-> db.seq.channel + 1, channel_name |-> channel_name]}])

\* INSERT INTO channel (channel_name): channel_name is NOT NULL
InsertChannel(db, channel_name) ==
    IF channel_name = 0 THEN Fail(db, "constraint")
    ELSE Ok([db EXCEPT !.channel = @ \cup {[id |-> db.seq.channel + 1, channel_name |-> channel_name]},
                       !.seq.channel = @ + 1])

\* UPDATE channel SET channel_name = @channel_name WHERE id = @id: an absent
\* name is bound as NULL, which the NOT NULL column refuses on a matched row
UpdateChannel(db, id, channel_name) ==
    IF ChannelExists(db, id) /\ channel_name = 0 THEN Fail(db, "constraint")
    ELSE Ok([db EXCEPT !.channel =
                {IF c.id = id THEN [c EXCEPT !.channel_name = channel_name] ELSE c : c \in @}])

addOrUpdateChannel(db, c) ==
    IF c.id # 0 THEN UpdateChannel(db, c.id, c.channel_name)
    ELSE InsertChannel(db, c.channel_name)

\* Variant: the reminders of the task are not deleted first
removeTask_NoCleanup(db, id) ==
    IF id = 0 THEN Fail(db, "validation")
    ELSE IF ~TaskExists(db, id) THEN Fail(db, "notfound")
    ELSE IF \E p \in db.person : p.task_id = id THEN Fail(db, "constraint")
    ELSE Ok([db EXCEPT !.task = {t \in @ : t.id # id}])

\* DELETE FROM remainder WHERE task_id = ?, then DELETE FROM task WHERE id = ?:
\* two statements, each committed on its own; person.task_id references
\* task(id), so the second fails while a person holds the task
removeTask(db, id) ==
    IF id = 0 THEN Fail(db, "validation")
    ELSE IF ~TaskExists(db, id) THEN Fail(db, "notfound")
    ELSE LET cleaned == [db EXCEPT !.remainder = {r \in @ : r.task_id # id}]
         IN  IF \E p \in db.person : p.task_id = id THEN Fail(cleaned, "constraint")
             ELSE Ok([cleaned EXCEPT !.task = {t \in @ : t.id # id}])

\* The task_status 'Completed'
Completed == 2

\* Variant: the tasks are deleted whatever still references them
deleteCompletedTasks_NoCheck(db) ==
    Ok([db EXCEPT !.task = {t \in @ : t.task_status # Completed}])

\* DELETE FROM task WHERE task_status = 'Completed': one statement, which
\* deletes every completed task or, when a person or a reminder references
\* one of them, fails and deletes none
deleteCompletedTasks(db) ==
    LET done == {t.id : t \in {t \in db.task : t.task_status = Completed}}
    IN  IF \/ \E p \in db.person : p.task_id \in done
           \/ \E r \in db.remainder : r.task_id \in done
        THEN Fail(db, "constraint")
        ELSE Ok([db EXCEPT !.task = {t \in @ : t.id \notin done}])

\* Variant: the row is not looked up before the delete
removeChannel_NoLookup(db, id) ==
    IF id = 0 THEN Fail(db, "validation")
    ELSE IF \E t \in db.task : t.related_channel = id THEN Fail(db, "constraint")
    ELSE Ok([db EXCEPT !.channel = {c \in @ : c.id # id}])

\* DELETE FROM channel WHERE id = ?: task.related_channel references channel(id)
removeChannel(db, id) ==
    IF id = 0 THEN Fail(db, "validation")
    ELSE IF ~ChannelExists(db, id) THEN Fail(db, "notfound")
    ELSE IF \E t \in db.task : t.related_channel = id THEN Fail(db, "constraint")
    ELSE Ok([db EXCEPT !.channel = {c \in @ : c.id # id}])

(***************************************************************************)
(* Queries.  A result is a sequence of rows: ORDER BY <key> <sort>, rows   *)
(* with equal keys in id order, LIMIT @limit.                              *)
(***************************************************************************)
Before(x, y, sort) ==
    IF x.key # y.key
    THEN (IF sort = "DESC" THEN x.key > y.key ELSE x.key < y.key)
    ELSE x.id < y.id

\* The row at position i is the one that exactly i - 1 rows come before
OrderBy(S, sort) ==
    LET ranked == {<<Cardinality({y \in S : Before(y, x, sort)}) + 1, x.row>> : x \in S}
    IN  [i \in 1..Cardinality(S) |-> (CHOOSE p \in ranked : p[1] = i)[2]]

\* Variant: the statement has no LIMIT
LimitTo_All(rows, limit) == rows

LimitTo(rows, limit) == SubSeq(rows, 1, Min(Len(rows), limit))

\* SELECT * FROM remainder [WHERE task_id = @task_id] ORDER BY remainder_date
\* <sort> LIMIT @limit.  hasTaskId is `task_id !== undefined`; a null task_id
\* (0) is bound as NULL and `task_id = NULL` selects no row.
getRemainder(db, sort, hasTaskId, task_id, limit) ==
    LET sel == {r \in db.remainder : ~hasTaskId \/ (task_id # 0 /\ r.task_id = task_id)}
    IN  LimitTo(OrderBy({[key |-> r.remainder_date, id |-> r.id, row |-> r] : r \in sel}, sort), limit)

\* One row per person (GROUP BY person.id), left-joined to the task, its
\* channel and its reminders.  The reminder column is a bare column of the
\* group: it holds one of the task's reminders, modelled as the set of the
\* candidates.  options.taskId is not read by the function.
PersonDetailsRow(db, p) ==
    LET ts == {t \in db.task : t.id = p.task_id /\ p.task_id # 0}
    IN  [Name |-> p.name,
         CurrentChannel |-> {c.channel_name : c \in {c \in db.channel : \E t \in ts : t.related_channel = c.id}},
         CurrentTask |-> {t.title : t \in ts},
         CurrentTaskDeadline |-> {t.deadline : t \in ts},
         Remainder |-> {<<r.remainder_date, r.reminder_time>> :
                           r \in {r \in db.remainder : \E t \in ts : r.task_id = t.id}},
         IsActive |-> IF ts # {} THEN 1 ELSE 0]

\* Variant: no GROUP BY person.id, one row per person and reminder of the task
getPersonDetailsTable_NoGroupBy(db, sort, filterEmptyTasks, limit) ==
    LET sel == {p \in db.person : ~filterEmptyTasks \/ (p.task_id # 0 /\ TaskExists(db, p.task_id))}
        joined == {<<p, n>> \in sel \X (0..Cardinality(db.remainder)) :
                      \/ n = 0 /\ ~\E r \in db.remainder : r.task_id = p.task_id
                      \/ \E r \in db.remainder : r.id = n /\ r.task_id = p.task_id}
    IN  LimitTo(OrderBy({[key |-> j[1].name, id |-> j[1].id * (Cardinality(db.remainder) + 1) + j[2],
                          row |-> PersonDetailsRow(db, j[1])] : j \in joined}, sort), limit)

getPersonDetailsTable(db, sort, filterEmptyTasks, limit) ==
    LET sel == {p \in db.person : ~filterEmptyTasks \/ (p.task_id # 0 /\ TaskExists(db, p.task_id))}
    IN  LimitTo(OrderBy({[key |-> p.name, id |-> p.id, row |-> PersonDetailsRow(db, p)] : p \in sel}, sort), limit)

(***************************************************************************)
(* The statements the query functions build.  An options object is a       *)
(* record that has the keys the caller gave: an omitted key is undefined   *)
(* and takes the default of the destructuring.  A statement is the text    *)
(* handed to prepare(), kept as its parts: the keyword that opens the      *)
(* filter, the conditions with the option each one comes from and the      *)
(* parameter it names, the texts spliced after ORDER BY, and the names of  *)
(* the values handed to get() / all().                                     *)
(***************************************************************************)
Option(o, k, default) == IF k \in DOMAIN o THEN o[k] ELSE default

Condition(filter, column, op, param) ==
    [filter |-> filter, column |-> column, op |-> op, param |-> param]

\* conditions.length ? `WHERE ${conditions.join(' AND ')}` : ''
WhereKeyword(conditions) == IF conditions # {} THEN "WHERE" ELSE ""

\* getPersons(sort, filterEmptyTasks, task_id, limit): the arguments are
\* positional, named here as the keys of the record.  The condition on
\* task_id replaces the one of filterEmptyTasks, opens with AND when
\* filterEmptyTasks is off, and names @taskId; the values bound are
\* {task_id, sort, limit}; the direction in the text is the parameter @sort.
getPersonsStatement(o) ==
    LET filterEmptyTasks == Option(o, "filterEmptyTasks", FALSE)
        task_id == Option(o, "task_id", 0)
    IN  [from |-> "person",
         keyword |-> IF task_id # 0 THEN (IF filterEmptyTasks THEN "WHERE" ELSE "AND")
                     ELSE IF filterEmptyTasks THEN "WHERE" ELSE "",
         conditions |-> IF task_id # 0 THEN {Condition("task_id", "task_id", "=", "taskId")}
                        ELSE IF filterEmptyTasks
                             THEN {Condition("filterEmptyTasks", "task_id", "IS NOT NULL", "")}
                             ELSE {},
         orderBy |-> "name",
         sort |-> "@sort",
         params |-> {"task_id", "sort", "limit"},
         limit |-> Option(o, "limit", DefaultLimit),
         single |-> FALSE]

\* getTasks(filters): one condition per filter that is not undefined
getTasksStatement(o) ==
    LET conditions ==
            {Condition("id", "id", "=", "id") : k \in {"id"} \cap DOMAIN o}
            \cup {Condition("assignedTo", "assigned_to", "=", "assignedTo") : k \in {"assignedTo"} \cap DOMAIN o}
            \cup {Condition("relatedChannel", "related_channel", "=", "relatedChannel") : k \in {"relatedChannel"} \cap DOMAIN o}
            \cup {Condition("taskStatus", "task_status", "=", "taskStatus") : k \in {"taskStatus"} \cap DOMAIN o}
    IN  [from |-> "task",
         keyword |-> WhereKeyword(conditions),
         conditions |-> conditions,
         orderBy |-> Option(o, "orderBy", "title"),
         sort |-> Option(o, "sort", "ASC"),
         params |-> {c.param : c \in conditions} \cup {"limit"},
         limit |-> Option(o, "limit", DefaultLimit),
         single |-> "id" \in DOMAIN o]

getChannelsStatement(o) ==
    LET conditions == {Condition("id", "id", "=", "id") : k \in {"id"} \cap DOMAIN o}
    IN  [from |-> "channel",
         keyword |-> WhereKeyword(conditions),
         conditions |-> conditions,
         orderBy |-> Option(o, "orderBy", "channel_name"),
         sort |-> Option(o, "sort", "ASC"),
         params |-> {c.param : c \in conditions} \cup {"limit"},
         limit |-> Option(o, "limit", DefaultLimit),
         single |-> "id" \in DOMAIN o]

\* getRemainder(filters): with an id the caller gets result[0] || null
getRemainderStatement(o) ==
    LET conditions ==
            {Condition("id", "id", "=", "id") : k \in {"id"} \cap DOMAIN o}
            \cup {Condition("task_id", "task_id", "=", "task_id") : k \in {"task_id"} \cap DOMAIN o}
    IN  [from |-> "remainder",
         keyword |-> WhereKeyword(conditions),
         conditions |-> conditions,
         orderBy |-> Option(o, "orderBy", "remainder_date"),
         sort |-> Option(o, "sort", "ASC"),
         params |-> {c.param : c \in conditions} \cup {"limit"},
         limit |-> Option(o, "limit", DefaultLimit),
         single |-> Option(o, "id", 0) # 0]

\* Variant: the sort key of the Task view is spliced as the caller gave it
TaskSortColumn_Raw(sortBy) == sortBy

\* The chain of conditionals after ORDER BY in getTaskDetailsTable
TaskSortColumn(sortBy) ==
    IF sortBy = "title" THEN "task.title"
    ELSE IF sortBy = "task_status" THEN "task.task_status"
    ELSE IF sortBy = "start_date" THEN "task.start_date"
    ELSE IF sortBy = "deadline" THEN "task.deadline"
    ELSE "task.title"

\* getTaskDetailsTable(options): one condition per filter that is truthy
getTaskDetailsTableStatement(o) ==
    LET conditions ==
            {Condition("assignedTo", "task.assigned_to", "=", "assignedTo") :
                k \in {k \in {"assignedTo"} \cap DOMAIN o : o[k] # 0}}
            \cup {Condition("taskStatus", "task.task_status", "=", "taskStatus") :
                k \in {k \in {"taskStatus"} \cap DOMAIN o : o[k] # 0}}
            \cup {Condition("relatedChannel", "task.related_channel", "=", "relatedChannel") :
                k \in {k \in {"relatedChannel"} \cap DOMAIN o : o[k] # 0}}
    IN  [from |-> "task",
         keyword |-> WhereKeyword(conditions),
         conditions |-> conditions,
         orderBy |-> TaskSortColumn(Option(o, "sortBy", "title")),
         sort |-> Option(o, "sort", "ASC"),
         params |-> {c.param : c \in conditions} \cup {"limit"},
         limit |-> Option(o, "limit", DefaultLimit),
         single |-> FALSE]

getPersonDetailsTableStatement(o) ==
    LET conditions == IF Option(o, "filterEmptyTasks", FALSE)
                      THEN {Condition("filterEmptyTasks", "task.id", "IS NOT NULL", "")}
                      ELSE {}
    IN  [from |-> "person",
         keyword |-> WhereKeyword(conditions),
         conditions |-> conditions,
         orderBy |-> "person.name",
         sort |-> Option(o, "sort", "ASC"),
         params |-> {"limit"},
         limit |-> Option(o, "limit", DefaultLimit),
         single |-> FALSE]

getChannelDetailsTableStatement(o) ==
    [from |-> "channel",
     keyword |-> "",
     conditions |-> {},
     orderBy |-> "channel.channel_name",
     sort |-> Option(o, "sort", "ASC"),
     params |-> {"limit"},
     limit |-> Option(o, "limit", DefaultLimit),
     single |-> FALSE]

\* The columns of the tables
Columns(tb) ==
    CASE tb = "person" -> {"id", "name", "task_id"}
      [] tb = "task" -> {"id", "title", "assigned_to", "related_channel", "task_status",
                         "start_date", "deadline"}
      [] tb = "channel" -> {"id", "channel_name"}
      [] tb = "remainder" -> {"id", "task_id", "remainder_date", "reminder_time"}

\* table.column names the column of the table the statement selects from
Column(tb, text) ==
    CASE text = "person.name" -> "name"
      [] text = "channel.channel_name" -> "channel_name"
      [] text = "task.id" -> IF tb = "person" THEN "task_id" ELSE "id"
      [] text = "task.title" -> "title"
      [] text = "task.task_status" -> "task_status"
      [] text = "task.start_date" -> "start_date"
      [] text = "task.deadline" -> "deadline"
      [] text = "task.assigned_to" -> "assigned_to"
      [] text = "task.related_channel" -> "related_channel"
      [] OTHER -> text

\* prepare() and the binding accept the statement: the filter opens with
\* WHERE, the texts after ORDER BY are a column and a direction, and every
\* parameter the text names is among the values bound
Prepares(s) ==
    /\ s.keyword = WhereKeyword(s.conditions)
    /\ Column(s.from, s.orderBy) \in Columns(s.from)
    /\ s.sort \in Sorts
    /\ \A c \in s.conditions : c.param = "" \/ c.param \in s.params

\* A comparison with NULL (0) selects no row
Matches(tb, r, c, o) ==
    IF c.op = "IS NOT NULL" THEN r[Column(tb, c.column)] # 0
    ELSE o[c.filter] # 0 /\ r[Column(tb, c.column)] = o[c.filter]

\* get() / all(): the rows of the table that satisfy the conditions, in the
\* order of the statement, up to its limit; get() gives the first one
Run(db, s, o) ==
    IF ~Prepares(s) THEN [ok |-> FALSE, rows |-> <<>>]
    ELSE LET sel == {r \in db[s.from] : \A c \in s.conditions : Matches(s.from, r, c, o)}
             keyed == {[key |-> r[Column(s.from, s.orderBy)], id |-> r.id, row |-> r] : r \in sel}
         IN  [ok |-> TRUE,
              rows |-> LimitTo(OrderBy(keyed, s.sort), IF s.single THEN Min(1, s.limit) ELSE s.limit)]

\* A row of the Task view (GROUP BY task.id): the reminder column is
\* MIN(remainder_date || ' ' || reminder_time) over the task's reminders
TaskDetailsRow(db, t) ==
    LET rs == {r \in db.remainder : r.task_id = t.id}
    IN  [Title |-> t.title,
         RelatedChannel |-> {c.channel_name : c \in {c \in db.channel : c.id = t.related_channel}},
         ClosestRemainder |-> {<<r.remainder_date, r.reminder_time>> :
                r \in {r \in rs : \A q \in rs :
                          \/ r.remainder_date < q.remainder_date
                          \/ (r.remainder_date = q.remainder_date /\ r.reminder_time <= q.reminder_time)}},
         CurrentTaskDeadline |-> t.deadline,
         StartDate |-> t.start_date,
         AssignedTo |-> {p.name : p \in {p \in db.person : p.id = t.assigned_to}},
         TaskStatus |-> t.task_status]

\* A row of the Channel view (GROUP BY channel.id): the tasks of the channel
\* that are not completed and the persons who hold one of them
ChannelDetailsRow(db, c) ==
    LET ts == {t \in db.task : t.related_channel = c.id /\ t.task_status # 0 /\ t.task_status # Completed}
    IN  [ChannelTitle |-> c.channel_name,
         NumberOfActiveDevs |-> Cardinality({p \in db.person : \E t \in ts : p.task_id = t.id}),
         NumberOfActiveTasks |-> Cardinality(ts)]

\* The query functions called with an options object
getPersons(db, o) == Run(db, getPersonsStatement(o), o)

getTasks(db, o) == Run(db, getTasksStatement(o), o)

getChannels(db, o) == Run(db, getChannelsStatement(o), o)

getRemainderWith(db, o) == Run(db, getRemainderStatement(o), o)

\* The rows read, each replaced by its row of the view
getTaskDetailsTable(db, o) ==
    LET res == Run(db, getTaskDetailsTableStatement(o), o)
    IN  [res EXCEPT !.rows = [i \in DOMAIN @ |-> TaskDetailsRow(db, @[i])]]

getChannelDetailsTable(db, o) ==
    LET res == Run(db, getChannelDetailsTableStatement(o), o)
    IN  [res EXCEPT !.rows = [i \in DOMAIN @ |-> ChannelDetailsRow(db, @[i])]]

getPersonDetailsTableWith(db, o) ==
    LET s == getPersonDetailsTableStatement(o)
    IN  IF ~Prepares(s) THEN [ok |-> FALSE, rows |-> <<>>]
        ELSE [ok |-> TRUE,
              rows |-> getPersonDetailsTable(db, s.sort, Option(o, "filterEmptyTasks", FALSE), s.limit)]

Queries == {"getPersons", "getTasks", "getChannels", "getRemainder",
            "getTaskDetailsTable", "getPersonDetailsTable", "getChannelDetailsTable"}

Statement(fn, o) ==
    CASE fn = "getPersons" -> getPersonsStatement(o)
      [] fn = "getTasks" -> getTasksStatement(o)
      [] fn = "getChannels" -> getChannelsStatement(o)
      [] fn = "getRemainder" -> getRemainderStatement(o)
      [] fn = "getTaskDetailsTable" -> getTaskDetailsTableStatement(o)
      [] fn = "getPersonDetailsTable" -> getPersonDetailsTableStatement(o)
      [] fn = "getChannelDetailsTable" -> getChannelDetailsTableStatement(o)

Query(db, fn, o) ==
    CASE fn = "getPersons" -> getPersons(db, o)
      [] fn = "getTasks" -> getTasks(db, o)
      [] fn = "getChannels" -> getChannels(db, o)
      [] fn = "getRemainder" -> getRemainderWith(db, o)
      [] fn = "getTaskDetailsTable" -> getTaskDetailsTable(db, o)
      [] fn = "getPersonDetailsTable" -> getPersonDetailsTableWith(db, o)
      [] fn = "getChannelDetailsTable" -> getChannelDetailsTable(db, o)

(***************************************************************************)
(* Controllers.  Each controller holds a sort direction, a selection       *)
(* cursor, a cached table, its filters and the promise chain               *)
(* _pendingOperation, modelled as the sequence of the operations chained   *)
(* so far with the state of each one's promise.                            *)
(***************************************************************************)
VARIABLES
    store,              \* the database
    ver,                \* number of changes made to the store (history)
    sort,               \* _sort
    selected,           \* _selectedPerson / _selectedRemainder
    table,              \* _personTable / _remainderTable
    tableFrom,          \* which refresh() the cached table comes from (history)
    filters,            \* _filters
    pendingOperation,   \* the chain: operations in submission order
    assignments,        \* results read by refresh() and not yet assigned to the table
    readys,             \* the ready() calls made on the controller
    calls,              \* calls made so far on the controllers
    last                \* the last call made on the model layer directly (history)

vars == <<store, ver, sort, selected, table, tableFrom, filters,
          pendingOperation, assignments, readys, calls, last>>

Arg(id, name, task_id, remainder_date, reminder_time) ==
    [id |-> id, name |-> name, task_id |-> task_id,
     remainder_date |-> remainder_date, reminder_time |-> reminder_time]

NoArg == Arg(0, 0, 0, 0, 0)

\* No call has been made on the model layer directly
NoCall == [n |-> 0]

DefaultFilters == [taskId |-> 0, filterEmptyTasks |-> FALSE]

\* An operation of the chain: the model function its closure calls before
\* refreshing ("refresh" when it only refreshes), with the argument.
\* status: pending    - chained, not started
\*         mutated    - the model function returned; suspended before refresh()
\*         refreshing - refresh() has read the store; suspended before the assignment
\*         done       - promise fulfilled
\*         failed     - the operation threw; promise rejected
\*         skipped    - never called: the promise it was chained on rejected
QueuedOp(fn, arg) == [fn |-> fn, arg |-> arg, status |-> "pending", mver |-> 0]

Settled(o) == o.status \in {"done", "failed", "skipped"}

Rejected(o) == o.status \in {"failed", "skipped"}

InFlight(o) == o.status \in {"mutated", "refreshing"}

\* A call on the model: the one a queued closure makes, or a direct one
CallModel(db, fn, arg) ==
    CASE fn = "addOrUpdatePerson" -> addOrUpdatePerson(db, arg)
      [] fn = "removePerson" -> removePerson(db, arg.id)
      [] fn = "addOrUpdateRemainder" -> addOrUpdateRemainder(db, arg)
      [] fn = "removeRemainder" -> removeRemainder(db, arg.id)
      [] fn = "addOrUpdateTask" -> addOrUpdateTask(db, arg)
      [] fn = "removeTask" -> removeTask(db, arg.id)
      [] fn = "addOrUpdateChannel" -> addOrUpdateChannel(db, arg)
      [] fn = "removeChannel" -> removeChannel(db, arg.id)
      [] fn = "deleteCompletedTasks" -> deleteCompletedTasks(db)

\* The query refresh() makes: the controller's class decides the function,
\* its _sort and _filters the options; no limit is passed.
RefreshQuery(db, k, srt, flt) ==
    IF k = "Person"
    THEN getPersonDetailsTable(db, srt, flt.filterEmptyTasks, DefaultLimit)
    ELSE getRemainder(db, srt, TRUE, flt.taskId, DefaultLimit)

\* Variant: refresh() uses the sort and the filters of the construction
RefreshRead_AtConstruction(c, owner) ==
    [rows |-> RefreshQuery(store, Kind(c), "ASC", DefaultFilters),
     owner |-> owner,
     upto |-> Len(pendingOperation[c]),
     ver |-> ver]

\* refresh(): the model function is called, and reads the store, at the call;
\* the assignment to the table is the continuation of the await.  owner is
\* the position in the chain of the operation that called refresh(), 0 for a
\* call from outside the chain.
RefreshRead(c, owner) ==
    [rows |-> RefreshQuery(store, Kind(c), sort[c], filters[c]),
     owner |-> owner,
     upto |-> Len(pendingOperation[c]),
     ver |-> ver]

InitStore ==
    [person |-> {[id |-> 1, name |-> 3, task_id |-> 1], [id |-> 2, name |-> 1, task_id |-> 0]},
     task |-> {[id |-> 1, title |-> 1, assigned_to |-> 0, related_channel |-> 1,
                task_status |-> 1, start_date |-> 0, deadline |-> 0]},
     channel |-> {[id |-> 1, channel_name |-> 1]},
     remainder |-> {[id |-> 1, task_id |-> 1, remainder_date |-> 1, reminder_time |-> 1]},
     seq |-> [person |-> 2, task |-> 1, channel |-> 1, remainder |-> 1]]

\* The state after the controllers are constructed: the constructor calls
\* refresh() (which reads the store) and makes its promise the chain.
Init ==
    /\ store = InitStore
    /\ ver = 0
    /\ sort = [c \in Controllers |-> "ASC"]
    /\ selected = [c \in Controllers |-> 0]
    /\ table = [c \in Controllers |-> <<>>]
    /\ tableFrom = [c \in Controllers |-> [owner |-> -1, upto |-> 0, ver |-> 0]]
    /\ filters = [c \in Controllers |-> DefaultFilters]
    /\ pendingOperation = [c \in Controllers |->
            <<[fn |-> "refresh", arg |-> NoArg, status |-> "refreshing", mver |-> 0]>>]
    /\ assignments = [c \in Controllers |->
            <<[rows |-> RefreshQuery(store, Kind(c), "ASC", DefaultFilters),
               owner |-> 1, upto |-> 0, ver |-> 0]>>]
    /\ readys = [c \in Controllers |-> <<>>]
    /\ calls = 0
    /\ last = NoCall

(***************************************************************************)
(* Calls made on a controller by its user                                  *)
(***************************************************************************)
\* A call is made on a controller
Called ==
    /\ calls < MaxCalls
    /\ calls' = calls + 1

\* _queueOperation: this._pendingOperation = this._pendingOperation.then(operation)
queueOperation(c, fn, arg) ==
    /\ Called
    /\ pendingOperation' = [pendingOperation EXCEPT ![c] = Append(@, QueuedOp(fn, arg))]

addPerson(c, name, task_id) ==
    /\ Kind(c) = "Person"
    /\ queueOperation(c, "addOrUpdatePerson", Arg(0, name, task_id, 0, 0))
    /\ UNCHANGED <<last, store, ver, sort, selected, table, tableFrom, filters, assignments, readys>>

removePersonById(c, id) ==
    /\ Kind(c) = "Person"
    /\ queueOperation(c, "removePerson", Arg(id, 0, 0, 0, 0))
    /\ UNCHANGED <<last, store, ver, sort, selected, table, tableFrom, filters, assignments, readys>>

addRemainder(c, task_id, remainder_date, reminder_time) ==
    /\ Kind(c) = "Remainder"
    /\ queueOperation(c, "addOrUpdateRemainder", Arg(0, 0, task_id, remainder_date, reminder_time))
    /\ UNCHANGED <<last, store, ver, sort, selected, table, tableFrom, filters, assignments, readys>>

removeRemainderById(c, id) ==
    /\ Kind(c) = "Remainder"
    /\ queueOperation(c, "removeRemainder", Arg(id, 0, 0, 0, 0))
    /\ UNCHANGED <<last, store, ver, sort, selected, table, tableFrom, filters, assignments, readys>>

\* this._filters = { ...this._filters, ...filter } at the call, then a queued refresh
addFilter(c, filter) ==
    /\ filters' = [filters EXCEPT ![c] = filter @@ @]
    /\ queueOperation(c, "refresh", NoArg)
    /\ UNCHANGED <<last, store, ver, sort, selected, table, tableFrom, assignments, readys>>

addSort(c, s) ==
    /\ sort' = [sort EXCEPT ![c] = s]
    /\ queueOperation(c, "refresh", NoArg)
    /\ UNCHANGED <<last, store, ver, selected, table, tableFrom, filters, assignments, readys>>

resetFilters(c) ==
    /\ filters' = [filters EXCEPT ![c] = DefaultFilters]
    /\ queueOperation(c, "refresh", NoArg)
    /\ UNCHANGED <<last, store, ver, sort, selected, table, tableFrom, assignments, readys>>

resetSort(c) ==
    /\ sort' = [sort EXCEPT ![c] = "ASC"]
    /\ queueOperation(c, "refresh", NoArg)
    /\ UNCHANGED <<last, store, ver, selected, table, tableFrom, filters, assignments, readys>>

\* ready(): awaits the promise that is the chain at the call
ready(c) ==
    /\ Called
    /\ readys' = [readys EXCEPT ![c] = Append(@, [upto |-> Len(pendingOperation[c]), status |-> "waiting"])]
    /\ UNCHANGED <<last, store, ver, sort, selected, table, tableFrom, filters,
                   pendingOperation, assignments>>

\* refresh() called from outside the chain: it is not queued
refresh(c) ==
    /\ Called
    /\ assignments' = [assignments EXCEPT ![c] = Append(@, RefreshRead(c, 0))]
    /\ UNCHANGED <<last, store, ver, sort, selected, table, tableFrom, filters,
                   pendingOperation, readys>>

\* Variant: the bound of the increment is off by one
incrementSelectedPerson_OffByOne(sel, len) == IF sel < len THEN sel + 1 ELSE 0

incrementSelectedPerson(sel, len) == IF sel < len - 1 THEN sel + 1 ELSE 0

decrementSelectedPerson(sel, len) == IF sel > 0 THEN sel - 1 ELSE len - 1

\* Variant: moving the cursor drops the cached table
incrementSelected_DropsTable(c) ==
    /\ Called
    /\ selected' = [selected EXCEPT ![c] = incrementSelectedPerson(@, Len(table[c]))]
    /\ table' = [table EXCEPT ![c] = <<>>]
    /\ UNCHANGED <<last, store, ver, sort, tableFrom, filters,
                   pendingOperation, assignments, readys>>

incrementSelected(c) ==
    /\ Called
    /\ selected' = [selected EXCEPT ![c] = incrementSelectedPerson(@, Len(table[c]))]
    /\ UNCHANGED <<last, store, ver, sort, table, tableFrom, filters,
                   pendingOperation, assignments, readys>>

decrementSelected(c) ==
    /\ Called
    /\ selected' = [selected EXCEPT ![c] = decrementSelectedPerson(@, Len(table[c]))]
    /\ UNCHANGED <<last, store, ver, sort, table, tableFrom, filters,
                   pendingOperation, assignments, readys>>

\* What a getter gives back: a value, or null (no value), or an exception
Returned(rows) == [threw |-> FALSE, value |-> rows]

Null == Returned(<<>>)

Thrown == [threw |-> TRUE, value |-> <<>>]

\* Variant: an index before the start of the table is an error
getSelectedPerson_Throws(tbl, sel) ==
    IF sel < 0 THEN Thrown
    ELSE IF sel < Len(tbl) THEN Returned(<<tbl[sel + 1]>>)
    ELSE Null

\* return this._personTable[this._selectedPerson] || null: indexing an array
\* outside 0..length-1 gives undefined, and a row is an object, never falsy
getSelectedPerson(tbl, sel) ==
    IF sel >= 0 /\ sel < Len(tbl) THEN Returned(<<tbl[sel + 1]>>) ELSE Null

getSelected(c) == getSelectedPerson(table[c], selected[c])

(***************************************************************************)
(* Steps of the promise chain                                              *)
(***************************************************************************)
\* Variant: the operation is started without waiting for the one before it
ThenReady_NoWait(c, i) ==
    /\ i \in 2..Len(pendingOperation[c])
    /\ pendingOperation[c][i].status = "pending"

\* May the operation at position i be handed to the job queue
ThenReady(c, i) ==
    /\ i \in 2..Len(pendingOperation[c])
    /\ pendingOperation[c][i].status = "pending"
    /\ Settled(pendingOperation[c][i - 1])

\* this._table[this._selected] is a row
HasSelected(c) == selected[c] >= 0 /\ selected[c] < Len(table[c])

\* const current = this._table[this._selected]: the row, or undefined (<<>>)
Current(c) == getSelectedPerson(table[c], selected[c]).value

\* { ...current, ...updates }: a key of updates replaces the key of the row;
\* a row of the Person view has the columns of the view and none of the keys
\* id, name, task_id of a person
Spread(c, current, updates) ==
    IF Kind(c) = "Remainder" /\ current # <<>>
    THEN Arg(current[1].id, 0,
             IF updates.task_id # 0 THEN updates.task_id ELSE current[1].task_id,
             IF updates.remainder_date # 0 THEN updates.remainder_date ELSE current[1].remainder_date,
             IF updates.reminder_time # 0 THEN updates.reminder_time ELSE current[1].reminder_time)
    ELSE updates

\* current.id: undefined for a row of the Person view
SelectedId(c) == IF Kind(c) = "Remainder" THEN Current(c)[1].id ELSE 0

\* Variant: the closure refreshes in a finally block, also after a throw
RunOperation_RefreshOnFailure(c, i) ==
    LET op == pendingOperation[c][i]
        res == CallModel(store, op.fn, op.arg)
    IN  IF op.fn = "refresh"
        THEN /\ pendingOperation' = [pendingOperation EXCEPT ![c][i].status = "refreshing"]
             /\ assignments' = [assignments EXCEPT ![c] = Append(@, RefreshRead(c, i))]
             /\ UNCHANGED <<last, store, ver>>
        ELSE /\ store' = res.db
             /\ ver' = IF res.ok \/ res.db # store THEN ver + 1 ELSE ver
             /\ pendingOperation' = [pendingOperation EXCEPT
                     ![c][i].status = IF res.ok THEN "mutated" ELSE "failed",
                     ![c][i].mver = ver']
             /\ assignments' = IF res.ok THEN assignments
                               ELSE [assignments EXCEPT ![c] = Append(@, RefreshRead(c, 0))]

\* The queued closure is called: `() => this.refresh()` calls refresh();
\* `async () => { await model.f(x); await this.refresh(); }` calls the model
\* function, whose writes stay in the store also when it throws, and is
\* suspended if it returned.  A throw rejects the closure's promise.
RunOperation(c, i) ==
    LET op == pendingOperation[c][i]
        res == CallModel(store, op.fn, op.arg)
    IN  IF op.fn = "refresh"
        THEN /\ pendingOperation' = [pendingOperation EXCEPT ![c][i].status = "refreshing"]
             /\ assignments' = [assignments EXCEPT ![c] = Append(@, RefreshRead(c, i))]
             /\ UNCHANGED <<last, store, ver>>
        ELSE /\ store' = res.db
             /\ ver' = IF res.ok \/ res.db # store THEN ver + 1 ELSE ver
             /\ pendingOperation' = [pendingOperation EXCEPT
                     ![c][i].status = IF res.ok THEN "mutated" ELSE "failed",
                     ![c][i].mver = ver']
             /\ UNCHANGED assignments

\* Variant: the closure looks the row under the cursor up when it runs
StartOperation_LateTarget(c) ==
    \E i \in 1..Len(pendingOperation[c]) :
        /\ ThenReady(c, i)
        /\ IF Rejected(pendingOperation[c][i - 1])
           THEN /\ pendingOperation' = [pendingOperation EXCEPT ![c][i].status = "skipped"]
                /\ UNCHANGED <<last, store, ver, assignments>>
           ELSE IF pendingOperation[c][i].fn = "refresh"
           THEN RunOperation(c, i)
           ELSE LET op == pendingOperation[c][i]
                    late == IF "current" \in DOMAIN op
                            THEN Spread(c, Current(c), op.updates)
                            ELSE Arg(IF HasSelected(c) THEN SelectedId(c) ELSE 0, 0, 0, 0, 0)
                    res == CallModel(store, op.fn, late)
                IN  /\ store' = res.db
                    /\ ver' = IF res.ok \/ res.db # store THEN ver + 1 ELSE ver
                    /\ pendingOperation' = [pendingOperation EXCEPT
                            ![c][i].status = IF res.ok THEN "mutated" ELSE "failed",
                            ![c][i].mver = ver']
                    /\ UNCHANGED assignments
        /\ UNCHANGED <<last, sort, selected, table, tableFrom, filters, readys, calls>>

\* promise.then(operation): once the promise the operation was chained on
\* settles, the operation is called if it fulfilled, and the rejection is
\* passed on without calling the operation if it rejected.
StartOperation(c) ==
    \E i \in 1..Len(pendingOperation[c]) :
        /\ ThenReady(c, i)
        /\ IF Rejected(pendingOperation[c][i - 1])
           THEN /\ pendingOperation' = [pendingOperation EXCEPT ![c][i].status = "skipped"]
                /\ UNCHANGED <<last, store, ver, assignments>>
           ELSE RunOperation(c, i)
        /\ UNCHANGED <<last, sort, selected, table, tableFrom, filters, readys, calls>>

\* Variant: the operation returns after the mutation without refreshing
ContinueOperation_NoRefresh(c) ==
    \E i \in 1..Len(pendingOperation[c]) :
        /\ pendingOperation[c][i].status = "mutated"
        /\ pendingOperation' = [pendingOperation EXCEPT ![c][i].status = "done"]
        /\ UNCHANGED <<last, store, ver, sort, selected, table, tableFrom, filters, assignments, readys, calls>>

\* await model.f(..) resumes: the operation calls this.refresh()
ContinueOperation(c) ==
    \E i \in 1..Len(pendingOperation[c]) :
        /\ pendingOperation[c][i].status = "mutated"
        /\ pendingOperation' = [pendingOperation EXCEPT ![c][i].status = "refreshing"]
        /\ assignments' = [assignments EXCEPT ![c] = Append(@, RefreshRead(c, i))]
        /\ UNCHANGED <<last, store, ver, sort, selected, table, tableFrom, filters, readys, calls>>

\* Variant: the continuations of refresh() run last in, first out
NextAssignment_Last(q) == Len(q)

\* The continuation of refresh(): this._table = <the rows read>.  The
\* continuations were put on the job queue when the store was read, and the
\* job queue is first in, first out.  The operation that awaited the refresh
\* then returns and its promise fulfils.
NextAssignment(q) == 1

\* Variant: the table is a static field, shared by the controllers
AssignTable_Shared(c) ==
    /\ assignments[c] # <<>>
    /\ LET a == assignments[c][1]
       IN  /\ table' = [b \in Controllers |-> a.rows]
           /\ tableFrom' = [tableFrom EXCEPT ![c] = [owner |-> a.owner, upto |-> a.upto, ver |-> a.ver]]
           /\ assignments' = [assignments EXCEPT ![c] = Tail(@)]
           /\ pendingOperation' = IF a.owner = 0 THEN pendingOperation
                                  ELSE [pendingOperation EXCEPT ![c][a.owner].status = "done"]
    /\ UNCHANGED <<last, store, ver, sort, selected, filters, readys, calls>>

\* Variant: the rows read are appended to the cached table
AssignTable_Patch(c) ==
    /\ assignments[c] # <<>>
    /\ LET a == assignments[c][1]
       IN  /\ table' = [table EXCEPT ![c] = @ \o a.rows]
           /\ tableFrom' = [tableFrom EXCEPT ![c] = [owner |-> a.owner, upto |-> a.upto, ver |-> a.ver]]
           /\ assignments' = [assignments EXCEPT ![c] = Tail(@)]
           /\ pendingOperation' = IF a.owner = 0 THEN pendingOperation
                                  ELSE [pendingOperation EXCEPT ![c][a.owner].status = "done"]
    /\ UNCHANGED <<last, store, ver, sort, selected, filters, readys, calls>>

AssignTable(c) ==
    /\ assignments[c] # <<>>
    /\ LET n == NextAssignment(assignments[c])
           a == assignments[c][n]
       IN  /\ table' = [table EXCEPT ![c] = a.rows]
           /\ tableFrom' = [tableFrom EXCEPT ![c] = [owner |-> a.owner, upto |-> a.upto, ver |-> a.ver]]
           /\ assignments' = [assignments EXCEPT ![c] =
                    SubSeq(@, 1, n - 1) \o SubSeq(@, n + 1, Len(@))]
           /\ pendingOperation' = IF a.owner = 0 THEN pendingOperation
                                  ELSE [pendingOperation EXCEPT ![c][a.owner].status = "done"]
    /\ UNCHANGED <<last, store, ver, sort, selected, filters, readys, calls>>

\* Variant: ready() returns without awaiting the chain
SettleReady_NoWait(c) ==
    \E w \in 1..Len(readys[c]) :
        /\ readys[c][w].status = "waiting"
        /\ readys' = [readys EXCEPT ![c][w].status = "resolved"]
        /\ UNCHANGED <<last, store, ver, sort, selected, table, tableFrom, filters,
                       pendingOperation, assignments, calls>>

\* The continuation of `await this._pendingOperation` in ready(): it returns
\* the controller if the awaited promise fulfilled and throws if it rejected
SettleReady(c) ==
    \E w \in 1..Len(readys[c]) :
        /\ readys[c][w].status = "waiting"
        /\ Settled(pendingOperation[c][readys[c][w].upto])
        /\ readys' = [readys EXCEPT ![c][w].status =
                IF Rejected(pendingOperation[c][readys[c][w].upto]) THEN "rejected" ELSE "resolved"]
        /\ UNCHANGED <<last, store, ver, sort, selected, table, tableFrom, filters,
                       pendingOperation, assignments, calls>>

\* The mutations a user queues, ready(), and the callbacks of the chain
ChainNext ==
    \E c \in Controllers :
        \/ \E name \in NewNames : addPerson(c, name, 0)
        \/ \E id \in RowIds : removePersonById(c, id)
        \/ \E task_id \in TaskIds : addRemainder(c, task_id, 2, 1)
        \/ \E id \in RowIds : removeRemainderById(c, id)
        \/ ready(c)
        \/ StartOperation(c)
        \/ ContinueOperation(c)
        \/ AssignTable(c)
        \/ SettleReady(c)

\* The other calls: filters and sort, refresh() and the cursor
ViewNext ==
    \E c \in Controllers :
        \/ \E f \in FilterArgs(c) : addFilter(c, f)
        \/ \E s \in NewSorts : addSort(c, s)
        \/ resetFilters(c)
        \/ resetSort(c)
        \/ refresh(c)
        \/ incrementSelected(c)
        \/ decrementSelected(c)

Next == ChainNext \/ ViewNext

Spec == Init /\ [][Next]_vars

\* The chain alone, with the job queue run to the end: no callback that can
\* run waits forever
FairSpec ==
    /\ Init
    /\ [][ChainNext]_vars
    /\ \A c \in Controllers :
        /\ WF_vars(StartOperation(c))
        /\ WF_vars(ContinueOperation(c))
        /\ WF_vars(AssignTable(c))
        /\ WF_vars(SettleReady(c))

(***************************************************************************)
(* The model layer called directly, without a controller: every function   *)
(* of src/model/model.js that changes the store, on stores that satisfy    *)
(* the constraints of the schema, with every shape of payload.             *)
(***************************************************************************)
\* A store with a task nobody holds, a person a task is assigned to and a
\* channel no task is related to
RichStore ==
    [person |-> {[id |-> 1, name |-> 3, task_id |-> 1], [id |-> 2, name |-> 1, task_id |-> 0]},
     task |-> {[id |-> 1, title |-> 1, assigned_to |-> 2, related_channel |-> 1,
                task_status |-> 1, start_date |-> 1, deadline |-> 1],
               [id |-> 2, title |-> 3, assigned_to |-> 0, related_channel |-> 0,
                task_status |-> 0, start_date |-> 0, deadline |-> 0]},
     channel |-> {[id |-> 1, channel_name |-> 1], [id |-> 2, channel_name |-> 3]},
     remainder |-> {[id |-> 1, task_id |-> 1, remainder_date |-> 1, reminder_time |-> 1],
                    [id |-> 2, task_id |-> 2, remainder_date |-> 3, reminder_time |-> 3]},
     seq |-> [person |-> 2, task |-> 2, channel |-> 2, remainder |-> 2]]

\* A store with a completed task that nothing references, and two tasks
\* that are not completed
DoneStore ==
    [person |-> {[id |-> 1, name |-> 1, task_id |-> 3]},
     task |-> {[id |-> 1, title |-> 1, assigned_to |-> 0, related_channel |-> 0,
                task_status |-> Completed, start_date |-> 1, deadline |-> 1],
               [id |-> 2, title |-> 2, assigned_to |-> 1, related_channel |-> 1,
                task_status |-> 1, start_date |-> 1, deadline |-> 3],
               [id |-> 3, title |-> 3, assigned_to |-> 0, related_channel |-> 1,
                task_status |-> 0, start_date |-> 0, deadline |-> 0]},
     channel |-> {[id |-> 1, channel_name |-> 1]},
     remainder |-> {[id |-> 1, task_id |-> 2, remainder_date |-> 1, reminder_time |-> 1],
                    [id |-> 2, task_id |-> 3, remainder_date |-> 3, reminder_time |-> 1]},
     seq |-> [person |-> 1, task |-> 3, channel |-> 1, remainder |-> 3]]

\* The same store when the completed task has a reminder and a person holds it
DoneReferencedStore ==
    [DoneStore EXCEPT
        !.remainder = @ \cup {[id |-> 3, task_id |-> 1, remainder_date |-> 2, reminder_time |-> 2]},
        !.person = @ \cup {[id |-> 2, name |-> 3, task_id |-> 1]},
        !.seq.person = 2]

ModelStores == {InitStore, RichStore, DoneStore, DoneReferencedStore}

\* The payloads: an id that is absent (0), of a row (1, 2) or of no row (3),
\* and each field either absent or given
IdArgs == {0, 1, 2, 3}

PersonArgs == {[id |-> i, name |-> n, task_id |-> t] : i \in IdArgs, n \in {0, 2}, t \in {0, 2}}

TaskArgs ==
    {[id |-> i, title |-> ti, assigned_to |-> a, related_channel |-> ch,
      task_status |-> st, start_date |-> sd, deadline |-> dl] :
        i \in IdArgs, ti \in {0, 2}, a \in {0, 1}, ch \in {0, 2},
        st \in {0, 2}, sd \in {0, 2}, dl \in {0, 2}}

ChannelArgs == {[id |-> i, channel_name |-> n] : i \in IdArgs, n \in {0, 2}}

RemainderArgs ==
    {[id |-> i, task_id |-> t, remainder_date |-> d, reminder_time |-> tm] :
        i \in IdArgs, t \in {0, 2}, d \in {0, 2}, tm \in {0, 2}}

RemoveArgs == {[id |-> i] : i \in IdArgs}

\* No controller has been constructed
ModelInit ==
    /\ store \in ModelStores
    /\ last = NoCall
    /\ ver = 0
    /\ sort = [c \in Controllers |-> "ASC"]
    /\ selected = [c \in Controllers |-> 0]
    /\ table = [c \in Controllers |-> <<>>]
    /\ tableFrom = [c \in Controllers |-> [owner |-> -1, upto |-> 0, ver |-> 0]]
    /\ filters = [c \in Controllers |-> DefaultFilters]
    /\ pendingOperation = [c \in Controllers |-> <<>>]
    /\ assignments = [c \in Controllers |-> <<>>]
    /\ readys = [c \in Controllers |-> <<>>]
    /\ calls = 0

\* model.fn(arg): the statements run at once; the store keeps what they
\* committed, whether the function returns or throws
ModelCall(fn, arg) ==
    /\ last.n < MaxModelCalls
    /\ LET res == CallModel(store, fn, arg)
       IN  /\ store' = res.db
           /\ last' = [n |-> last.n + 1, fn |-> fn, arg |-> arg, before |-> store,
                       ok |-> res.ok, err |-> res.err]
    /\ UNCHANGED <<ver, sort, selected, table, tableFrom, filters,
                   pendingOperation, assignments, readys, calls>>

ModelNext ==
    \/ \E p \in PersonArgs : ModelCall("addOrUpdatePerson", p)
    \/ \E t \in TaskArgs : ModelCall("addOrUpdateTask", t)
    \/ \E c \in ChannelArgs : ModelCall("addOrUpdateChannel", c)
    \/ \E r \in RemainderArgs : ModelCall("addOrUpdateRemainder", r)
    \/ \E a \in RemoveArgs : ModelCall("removePerson", a)
    \/ \E a \in RemoveArgs : ModelCall("removeTask", a)
    \/ \E a \in RemoveArgs : ModelCall("removeChannel", a)
    \/ \E a \in RemoveArgs : ModelCall("removeRemainder", a)
    \/ ModelCall("deleteCompletedTasks", [id |-> 0])

ModelSpec == ModelInit /\ [][ModelNext]_vars

(***************************************************************************)
(* The query functions called directly, with every shape of options, and   *)
(* the controllers constructed on stores where a table has more rows than  *)
(* the default limit and a task has several reminders.                     *)
(***************************************************************************)
\* One row more than the default limit
Big == DefaultLimit + 1

\* Every table has Big rows; every other person holds task 2, and task 1
\* has all the reminders
BigStore ==
    [person |-> {[id |-> i, name |-> 1 + (i % 3), task_id |-> 2 * (i % 2)] : i \in 1..Big},
     task |-> {[id |-> i, title |-> 1 + (i % 3), assigned_to |-> 1, related_channel |-> 1,
                task_status |-> 1, start_date |-> i % 2, deadline |-> 1 + (i % 4)] : i \in 1..Big},
     channel |-> {[id |-> i, channel_name |-> 1 + (i % 5)] : i \in 1..Big},
     remainder |-> {[id |-> i, task_id |-> 1, remainder_date |-> 1 + (i % 3), reminder_time |-> 1] :
                        i \in 1..Big},
     seq |-> [person |-> Big, task |-> Big, channel |-> Big, remainder |-> Big]]

\* RichStore with two more reminders on the task that person 1 holds, and a
\* person whose task has no channel and one reminder
RemindersStore ==
    [RichStore EXCEPT
        !.remainder = @ \cup {[id |-> 3, task_id |-> 1, remainder_date |-> 2, reminder_time |-> 2],
                              [id |-> 4, task_id |-> 1, remainder_date |-> 1, reminder_time |-> 3]},
        !.person = @ \cup {[id |-> 3, name |-> 2, task_id |-> 2]},
        !.seq.remainder = 4,
        !.seq.person = 3]

QueryStores == {RichStore, RemindersStore, DoneStore, BigStore}

\* An options object without keys
NoOption == [k \in {} |-> 0]

\* The option k omitted, or given with one of the values
Given(k, values) == {NoOption} \cup {[j \in {k} |-> v] : v \in values}

Combine(A, B) == {a @@ b : a \in A, b \in B}

\* sort and limit: omitted, a direction, a text that is no direction; a limit
SortArgs == Combine(Given("sort", {"DESC", "SIDEWAYS"}), Given("limit", {1}))

\* orderBy: omitted, a column, a text that is no column
OrderArgs(columns) == Combine(Given("orderBy", columns \cup {"nope"}), SortArgs)

\* The options: every combination of filters given and omitted, a null (0)
\* among the values, and every combination of the ordering options
getPersonsArgs ==
    Combine(Given("filterEmptyTasks", {FALSE, TRUE}), Given("task_id", {0, 1})) \cup SortArgs

getTasksArgs ==
    Combine(Combine(Given("id", {1}), Given("assignedTo", {1})),
            Combine(Given("relatedChannel", {1}), Given("taskStatus", {1})))
    \cup OrderArgs({"deadline"})

getChannelsArgs == Given("id", {0, 1}) \cup OrderArgs({"id"})

getRemainderArgs ==
    Combine(Given("id", {0, 1}), Given("task_id", {0, 1})) \cup OrderArgs({"reminder_time"})

getTaskDetailsTableArgs ==
    Combine(Combine(Given("assignedTo", {0, 1}), Given("taskStatus", {0, 1})), Given("relatedChannel", {1}))
    \cup Combine(Given("sortBy", {"title", "task_status", "start_date", "deadline", "id"}), SortArgs)

getPersonDetailsTableArgs == Combine(Given("filterEmptyTasks", {FALSE, TRUE}), SortArgs)

getChannelDetailsTableArgs == SortArgs

\* The controllers are constructed on the store: each constructor has called
\* refresh(), which has read the store
QueryInit ==
    /\ store \in QueryStores
    /\ ver = 0
    /\ sort = [c \in Controllers |-> "ASC"]
    /\ selected = [c \in Controllers |-> 0]
    /\ table = [c \in Controllers |-> <<>>]
    /\ tableFrom = [c \in Controllers |-> [owner |-> -1, upto |-> 0, ver |-> 0]]
    /\ filters = [c \in Controllers |-> DefaultFilters]
    /\ pendingOperation = [c \in Controllers |->
            <<[fn |-> "refresh", arg |-> NoArg, status |-> "refreshing", mver |-> 0]>>]
    /\ assignments = [c \in Controllers |->
            <<[rows |-> RefreshQuery(store, Kind(c), "ASC", DefaultFilters),
               owner |-> 1, upto |-> 0, ver |-> 0]>>]
    /\ readys = [c \in Controllers |-> <<>>]
    /\ calls = 0
    /\ last = NoCall

\* Variant: the rows a query returns are taken out of the store
QueryCall_Destructive(fn, o) ==
    /\ last = NoCall
    /\ LET res == Query(store, fn, o)
       IN  /\ last' = [n |-> 1, fn |-> fn, arg |-> o, stmt |-> Statement(fn, o),
                       ok |-> res.ok, rows |-> res.rows]
           /\ store' = IF res.ok /\ res.rows # <<>>
                       THEN [store EXCEPT ![Statement(fn, o).from] = {}] ELSE store
    /\ UNCHANGED <<ver, sort, selected, table, tableFrom, filters,
                   pendingOperation, assignments, readys, calls>>

\* model.fn(options): the statement is built, prepared and run; the store is
\* only read.  The functions run to their end one at a time: a call starts
\* when the caller has taken the result of the one before.
QueryCall(fn, o) ==
    /\ last = NoCall
    /\ LET res == Query(store, fn, o)
       IN  last' = [n |-> 1, fn |-> fn, arg |-> o, stmt |-> Statement(fn, o),
                    ok |-> res.ok, rows |-> res.rows]
    /\ UNCHANGED <<store, ver, sort, selected, table, tableFrom, filters,
                   pendingOperation, assignments, readys, calls>>

\* The caller makes the same call again, with the same options
QueryAgain ==
    /\ last # NoCall
    /\ last.n = 1
    /\ LET res == Query(store, last.fn, last.arg)
       IN  last' = [n |-> 2, fn |-> last.fn, arg |-> last.arg, stmt |-> Statement(last.fn, last.arg),
                    ok |-> res.ok, rows |-> res.rows]
    /\ UNCHANGED <<store, ver, sort, selected, table, tableFrom, filters,
                   pendingOperation, assignments, readys, calls>>

\* The caller has taken the result
QueryReturn ==
    /\ last # NoCall
    /\ last' = NoCall
    /\ UNCHANGED <<store, ver, sort, selected, table, tableFrom, filters,
                   pendingOperation, assignments, readys, calls>>

QueryNext ==
    \/ \E o \in getPersonsArgs : QueryCall("getPersons", o)
    \/ \E o \in getTasksArgs : QueryCall("getTasks", o)
    \/ \E o \in getChannelsArgs : QueryCall("getChannels", o)
    \/ \E o \in getRemainderArgs : QueryCall("getRemainder", o)
    \/ \E o \in getTaskDetailsTableArgs : QueryCall("getTaskDetailsTable", o)
    \/ \E o \in getPersonDetailsTableArgs : QueryCall("getPersonDetailsTable", o)
    \/ \E o \in getChannelDetailsTableArgs : QueryCall("getChannelDetailsTable", o)
    \/ QueryAgain
    \/ QueryReturn
    \/ \E c \in Controllers : AssignTable(c)

QuerySpec == QueryInit /\ [][QueryNext]_vars

(***************************************************************************)
(* The operations on the selected record: updateCurrentX, removeSelectedX, *)
(* with the cursor, the task filter and the callbacks of the chain, on a   *)
(* store where the task filter selects several reminders.                  *)
(***************************************************************************)
UpsertOf(c) == IF Kind(c) = "Person" THEN "addOrUpdatePerson" ELSE "addOrUpdateRemainder"

RemoveOf(c) == IF Kind(c) = "Person" THEN "removePerson" ELSE "removeRemainder"

\* The closure of updateCurrentX holds the row and the updates of the call
CurrentOp(fn, current, updates, arg) ==
    [fn |-> fn, arg |-> arg, status |-> "pending", mver |-> 0,
     current |-> current, updates |-> updates]

\* updateCurrentX(updates): the row under the cursor is read at the call and
\* the closure that merges it with the updates is queued
updateCurrent(c, updates) ==
    /\ Called
    /\ pendingOperation' = [pendingOperation EXCEPT ![c] =
            Append(@, CurrentOp(UpsertOf(c), Current(c), updates, Spread(c, Current(c), updates)))]
    /\ UNCHANGED <<last, store, ver, sort, selected, table, tableFrom, filters, assignments, readys>>

\* What a call on a controller threw to its caller, and the cursor and the
\* number of rows of the table it was called with
ThrewTo(c, fn) ==
    [n |-> 1, fn |-> fn, c |-> c, threw |-> TRUE,
     selected |-> selected[c], rows |-> Len(table[c])]

\* Variant: without a row under the cursor the removal of `undefined` is queued
removeSelected_Queues(c) ==
    /\ queueOperation(c, RemoveOf(c), Arg(IF HasSelected(c) THEN SelectedId(c) ELSE 0, 0, 0, 0, 0))
    /\ UNCHANGED <<last, store, ver, sort, selected, table, tableFrom, filters, assignments, readys>>

\* removeSelectedX(): `current.id` throws a TypeError when there is no row
\* under the cursor; otherwise removeX(current.id) queues the removal
removeSelected(c) ==
    IF HasSelected(c)
    THEN /\ queueOperation(c, RemoveOf(c), Arg(SelectedId(c), 0, 0, 0, 0))
         /\ UNCHANGED <<last, store, ver, sort, selected, table, tableFrom, filters, assignments, readys>>
    ELSE /\ last' = ThrewTo(c, "removeSelected")
         /\ UNCHANGED <<store, ver, sort, selected, table, tableFrom, filters,
                        pendingOperation, assignments, readys, calls>>

\* The updates and the filter the caller gives
UpdateArgs(c) == IF Kind(c) = "Person" THEN {Arg(0, 2, 0, 0, 0)} ELSE {Arg(0, 0, 0, 0, 3)}

TaskFilterArgs == {[taskId |-> 1]}

\* The controllers are constructed on the store
SelectInit ==
    /\ store = RemindersStore
    /\ ver = 0
    /\ sort = [c \in Controllers |-> "ASC"]
    /\ selected = [c \in Controllers |-> 0]
    /\ table = [c \in Controllers |-> <<>>]
    /\ tableFrom = [c \in Controllers |-> [owner |-> -1, upto |-> 0, ver |-> 0]]
    /\ filters = [c \in Controllers |-> DefaultFilters]
    /\ pendingOperation = [c \in Controllers |->
            <<[fn |-> "refresh", arg |-> NoArg, status |-> "refreshing", mver |-> 0]>>]
    /\ assignments = [c \in Controllers |->
            <<[rows |-> RefreshQuery(store, Kind(c), "ASC", DefaultFilters),
               owner |-> 1, upto |-> 0, ver |-> 0]>>]
    /\ readys = [c \in Controllers |-> <<>>]
    /\ calls = 0
    /\ last = NoCall

SelectNext ==
    \E c \in Controllers :
        \/ \E u \in UpdateArgs(c) : updateCurrent(c, u)
        \/ removeSelected(c)
        \/ incrementSelected(c)
        \/ decrementSelected(c)
        \/ \E f \in TaskFilterArgs : addFilter(c, f)
        \/ resetFilters(c)
        \/ StartOperation(c)
        \/ ContinueOperation(c)
        \/ AssignTable(c)

SelectSpec == SelectInit /\ [][SelectNext]_vars

(***************************************************************************)
(* Properties                                                              *)
(***************************************************************************)
Chain(c) == pendingOperation[c]

IsMutation(o) == o.fn # "refresh"

\* Every chained operation has settled and no refresh awaits its assignment
Drained(c) ==
    /\ \A i \in 1..Len(Chain(c)) : Settled(Chain(c)[i])
    /\ assignments[c] = <<>>

\* C1: on each controller the queued operations start in submission order,
\* after the constructor's refresh; an operation is started (or passed over)
\* only when every operation before it has settled, the refresh it triggered
\* included, and at most one operation is in flight.
C1_SubmissionOrder ==
    \A c \in Controllers :
        /\ \A i, j \in 1..Len(Chain(c)) :
              (i < j /\ Chain(c)[j].status # "pending") => Settled(Chain(c)[i])
        /\ Cardinality({i \in 1..Len(Chain(c)) : InFlight(Chain(c)[i])}) <= 1
        /\ \A k \in 1..Len(assignments[c]) :
              assignments[c][k].owner # 0 =>
                 /\ Chain(c)[assignments[c][k].owner].status = "refreshing"
                 /\ \A j \in (assignments[c][k].owner + 1)..Len(Chain(c)) :
                       Chain(c)[j].status = "pending"

\* Two operations were queued after the constructor: the first has finished
\* and the second is in flight
C1_Witness ==
    \E c \in Controllers :
        /\ Len(Chain(c)) >= 3
        /\ Chain(c)[2].status = "done"
        /\ InFlight(Chain(c)[3])

\* C2: every submitted operation runs, also after an earlier operation of
\* the chain failed: no operation is passed over without being called.
C2_FailedStepDoesNotStopChain ==
    \A c \in Controllers : \A i \in 1..Len(Chain(c)) : Chain(c)[i].status # "skipped"

\* Would the operation succeed if it were called now
WouldSucceed(o) == o.fn = "refresh" \/ CallModel(store, o.fn, o.arg).ok

\* C3: the failure of an operation is reported to the ready() issued
\* directly after it, and a ready() issued after a later operation that does
\* not fail itself resolves: the failure of an earlier operation is not
\* reported to it.
C3_FailureReportedToItsWaiterOnly ==
    \A c \in Controllers : \A w \in 1..Len(readys[c]) :
        LET o == Chain(c)[readys[c][w].upto]
        IN  /\ (readys[c][w].status # "waiting" /\ o.status = "failed") => readys[c][w].status = "rejected"
            /\ readys[c][w].status = "rejected" => (o.status = "failed" \/ ~WouldSucceed(o))

\* No ready() is waiting
AllReadySettled == \A c \in Controllers : \A w \in 1..Len(readys[c]) : readys[c][w].status # "waiting"

\* C4: a ready() settles only when every operation submitted before the call
\* has settled, and every ready() eventually settles.  (That it does not wait
\* for operations submitted after the call is the witness.)
C4_ReadyWaitsForChain ==
    /\ [](\A c \in Controllers : \A w \in 1..Len(readys[c]) :
            readys[c][w].status # "waiting" =>
                \A i \in 1..readys[c][w].upto : Settled(Chain(c)[i]))
    /\ []<>AllReadySettled

\* A ready() has settled while an operation submitted after it is still pending
C4_Witness ==
    \E c \in Controllers : \E w \in 1..Len(readys[c]) :
        /\ readys[c][w].status = "resolved"
        /\ readys[c][w].upto >= 2
        /\ \E j \in (readys[c][w].upto + 1)..Len(Chain(c)) : Chain(c)[j].status = "pending"

C7_FailedStepChangesNothing ==
    [][\A c \in Controllers : \A i \in 1..Len(Chain(c)) :
          (Chain(c)[i].status = "pending" /\ pendingOperation'[c][i].status = "failed")
          => /\ store' = store
             /\ table' = table
             /\ selected' = selected
             /\ filters' = filters
             /\ sort' = sort
             /\ assignments' = assignments]_vars

\* A not-found failure and a validation failure have both happened
C7_Witness ==
    /\ \E c \in Controllers : \E i \in 1..Len(Chain(c)) :
          Chain(c)[i].status = "failed" /\ CallModel(store, Chain(c)[i].fn, Chain(c)[i].arg).err = "notfound"
    /\ \E c \in Controllers : \E i \in 1..Len(Chain(c)) :
          Chain(c)[i].status = "failed" /\ CallModel(store, Chain(c)[i].fn, Chain(c)[i].arg).err = "validation"

\* The operations submitted before the refresh whose rows are assigned next:
\* for a refresh() called from outside the chain those chained at the call,
\* for a queued operation those chained before it
SubmittedBefore(a) == IF a.owner = 0 THEN 1..a.upto ELSE 1..(a.owner - 1)

Ctl(c) == <<sort[c], selected[c], table[c], filters[c], pendingOperation[c], assignments[c], readys[c]>>

\* C9: a step changes the state of one controller at most; a change of the
\* store replaces no table; a table is replaced only by the assignment of
\* its own controller's refresh.
C9_NoCrossControllerEffect ==
    [][/\ \A a, b \in Controllers : a # b => (Ctl(a)' = Ctl(a) \/ Ctl(b)' = Ctl(b))
       /\ store' # store => table' = table
       /\ \A b \in Controllers :
             table'[b] # table[b] => Len(assignments'[b]) < Len(assignments[b])]_vars

\* A drained controller whose table no longer is the projection of the
\* store: another controller has changed the store since
C9_Witness ==
    \E b \in Controllers :
        /\ Drained(b)
        /\ tableFrom[b].ver < ver
        /\ table[b] # RefreshQuery(store, Kind(b), sort[b], filters[b])

ValidCursor(c) == table[c] # <<>> /\ selected[c] \in 0..(Len(table[c]) - 1)

\* C10: on a non-empty table of length n with a valid cursor i, increment
\* moves the cursor to (i + 1) mod n and decrement to (i - 1) mod n, and each
\* undoes the other.
C10_CursorWraps ==
    /\ [][\A c \in Controllers :
             ValidCursor(c) =>
                /\ incrementSelected(c) => selected'[c] = (selected[c] + 1) % Len(table[c])
                /\ decrementSelected(c) => selected'[c] = (selected[c] + Len(table[c]) - 1) % Len(table[c])]_vars
    /\ [](\A c \in Controllers :
             ValidCursor(c) =>
                /\ decrementSelectedPerson(incrementSelectedPerson(selected[c], Len(table[c])), Len(table[c]))
                      = selected[c]
                /\ incrementSelectedPerson(decrementSelectedPerson(selected[c], Len(table[c])), Len(table[c]))
                      = selected[c])

\* One call was made and the cursor is on the last row of a table of two
\* rows or more: a decrement has wrapped from the first row
C10_Witness ==
    \E c \in Controllers :
        /\ calls = 1
        /\ Len(table[c]) >= 2
        /\ selected[c] = Len(table[c]) - 1

\* C11: whenever the cached table is empty, getSelectedPerson /
\* getSelectedRemainder returns null and raises no error, wherever the
\* increments, decrements and refreshes have left the cursor.
C11_EmptyTableNoSelection ==
    \A c \in Controllers : table[c] = <<>> => getSelected(c) = Null

\* A decrement on an empty table has moved the cursor before the start
C11_Witness ==
    \E c \in Controllers : calls >= 1 /\ table[c] = <<>> /\ selected[c] = -1

\* C12: the cursor is always an index into the cached table: in 0..n-1 when
\* the table has n > 0 rows, and 0 when the table is empty.
C12_CursorIsIndex ==
    \A c \in Controllers :
        IF table[c] = <<>> THEN selected[c] = 0 ELSE ValidCursor(c)
(***************************************************************************)
(* Properties of the model layer, on the last direct call: the store       *)
(* before it is last.before, the store after it is store.                  *)
(***************************************************************************)
Upserts == {"addOrUpdatePerson", "addOrUpdateTask", "addOrUpdateChannel", "addOrUpdateRemainder"}

Removes == {"removePerson", "removeTask", "removeChannel", "removeRemainder"}

Tables == {"person", "task", "channel", "remainder"}

TableOf(fn) ==
    CASE fn \in {"addOrUpdatePerson", "removePerson"} -> "person"
      [] fn \in {"addOrUpdateTask", "removeTask"} -> "task"
      [] fn \in {"addOrUpdateChannel", "removeChannel"} -> "channel"
      [] fn \in {"addOrUpdateRemainder", "removeRemainder"} -> "remainder"

IdsOf(db, tb) == {row.id : row \in db[tb]}

RowOf(db, tb, id) == CHOOSE row \in db[tb] : row.id = id

OthersSame(db1, db2, tb) == \A other \in Tables \ {tb} : db1[other] = db2[other]

\* The last call was an add-or-update without an id / with an id
Inserted == last.n > 0 /\ last.fn \in Upserts /\ last.arg.id = 0

Updated == last.n > 0 /\ last.fn \in Upserts /\ last.arg.id # 0

UpdatedExisting == Updated /\ last.arg.id \in IdsOf(last.before, TableOf(last.fn))

Removed == last.n > 0 /\ last.fn \in Removes

\* The fields of the payload, other than the id, that were given
Supplied(arg) == {f \in DOMAIN arg \ {"id"} : arg[f] # 0}

\* C13: an add-or-update without an id that returns has inserted exactly one
\* row, with an id never assigned before, and changed no existing row; an
\* add-or-update with the id of an existing row changes no other row and
\* leaves the number of rows of the entity unchanged.  No other table changes.
C13_UpsertFrame ==
    last.n > 0 /\ last.fn \in Upserts =>
        LET tb == TableOf(last.fn)
            old == last.before[tb]
            new == store[tb]
        IN  /\ Inserted /\ last.ok =>
                /\ old \subseteq new
                /\ Cardinality(new \ old) = 1
                /\ \A row \in new \ old : row.id > last.before.seq[tb] /\ row.id \notin IdsOf(last.before, tb)
                /\ OthersSame(store, last.before, tb)
            /\ UpdatedExisting =>
                /\ {row \in new : row.id # last.arg.id} = {row \in old : row.id # last.arg.id}
                /\ Cardinality(new) = Cardinality(old)
                /\ IdsOf(store, tb) = IdsOf(last.before, tb)
                /\ OthersSame(store, last.before, tb)

\* A task was updated in a table of two tasks
C13_Witness ==
    /\ UpdatedExisting /\ last.fn = "addOrUpdateTask" /\ last.ok
    /\ Cardinality(last.before.task) = 2
    /\ store # last.before

\* C14: a Task update with the id of an existing task and a non-empty set S
\* of fields (whose references exist) succeeds, sets the fields in S to the
\* supplied values and leaves the fields outside S as they were.
C14_TaskPartialUpdate ==
    (/\ UpdatedExisting /\ last.fn = "addOrUpdateTask" /\ Supplied(last.arg) # {}
     /\ (last.arg.assigned_to # 0 => PersonExists(last.before, last.arg.assigned_to))
     /\ (last.arg.related_channel # 0 => ChannelExists(last.before, last.arg.related_channel)))
    => (/\ last.ok
        /\ \A f \in TaskFields :
             RowOf(store, "task", last.arg.id)[f] =
                 IF f \in Supplied(last.arg) THEN last.arg[f]
                 ELSE RowOf(last.before, "task", last.arg.id)[f])

\* Only task_status was supplied, and the task has kept a title and a deadline
C14_Witness ==
    /\ UpdatedExisting /\ last.fn = "addOrUpdateTask" /\ last.ok
    /\ Supplied(last.arg) = {"task_status"}
    /\ RowOf(store, "task", last.arg.id).task_status = 2
    /\ RowOf(store, "task", last.arg.id).deadline = 1

\* C15: a Person update with the id of an existing person and only the name
\* succeeds, sets the name and leaves task_id unchanged; and no update of
\* any entity sets a field the payload omitted to null.
C15_PersonNameOnlyUpdate ==
    /\ UpdatedExisting /\ last.fn = "addOrUpdatePerson" /\ Supplied(last.arg) = {"name"} =>
            /\ last.ok
            /\ RowOf(store, "person", last.arg.id).name = last.arg.name
            /\ RowOf(store, "person", last.arg.id).task_id = RowOf(last.before, "person", last.arg.id).task_id
    /\ UpdatedExisting =>
            \A f \in DOMAIN last.arg \ (Supplied(last.arg) \cup {"id"}) :
                RowOf(store, TableOf(last.fn), last.arg.id)[f] =
                    RowOf(last.before, TableOf(last.fn), last.arg.id)[f]

\* C16: a Reminder update with the id of an existing reminder and only
\* remainder_date and/or reminder_time succeeds, sets the supplied fields and
\* leaves task_id unchanged.
C16_ReminderUpdateWithoutTask ==
    (UpdatedExisting /\ last.fn = "addOrUpdateRemainder"
        /\ last.arg.task_id = 0 /\ Supplied(last.arg) # {}) =>
            /\ last.ok
            /\ \A f \in {"task_id", "remainder_date", "reminder_time"} :
                RowOf(store, "remainder", last.arg.id)[f] =
                    IF f \in Supplied(last.arg) THEN last.arg[f]
                    ELSE RowOf(last.before, "remainder", last.arg.id)[f]

\* C17: after an add-or-update without an id has returned, the same call
\* again returns too and the two calls have added two rows with different
\* ids; after an add-or-update with an id, the same call again leaves the
\* store as the first call left it.
C17_UpsertTwice ==
    /\ Inserted /\ last.ok =>
            LET tb == TableOf(last.fn)
                again == CallModel(store, last.fn, last.arg)
                added == again.db[tb] \ last.before[tb]
            IN  /\ again.ok
                /\ Cardinality(added) = 2
                /\ Cardinality({row.id : row \in added}) = 2
                /\ \A row \in added : \A f \in DOMAIN last.arg \ {"id"} : row[f] = last.arg[f]
    /\ Updated => CallModel(store, last.fn, last.arg).db = store

\* A channel was inserted
C17_Witness ==
    Inserted /\ last.ok /\ last.fn = "addOrUpdateChannel" /\ store # last.before

\* C18: an add-or-update with an id and no other field fails with a
\* validation error and leaves the store unchanged, for every entity.
C18_EmptyUpdateIsValidationError ==
    Updated /\ Supplied(last.arg) = {} =>
        ~last.ok /\ last.err = "validation" /\ store = last.before

\* C19: an add-or-update whose id matches no row fails with a not-found
\* error and leaves the store unchanged.
C19_UpdateOfMissingRowIsNotFound ==
    Updated /\ ~UpdatedExisting =>
        ~last.ok /\ last.err = "notfound" /\ store = last.before

\* Another row holds a reference to the row: task.assigned_to for a person,
\* person.task_id for a task (its reminders are deleted first),
\* task.related_channel for a channel
Referenced(db, tb, id) ==
    CASE tb = "person" -> \E t \in db.task : t.assigned_to = id
      [] tb = "task" -> \E p \in db.person : p.task_id = id
      [] tb = "channel" -> \E t \in db.task : t.related_channel = id
      [] tb = "remainder" -> FALSE

RemindersOf(db, id) == {r \in db.remainder : r.task_id = id}

RemovedTask == Removed /\ last.fn = "removeTask"

\* C21: removing an existing task removes the task row and all its
\* reminders together, and no reminder of another task; a removal that
\* fails as not-found leaves all reminders untouched.
C21_RemoveTaskCascades ==
    RemovedTask =>
        IF TaskExists(last.before, last.arg.id)
        THEN /\ ~TaskExists(store, last.arg.id)
             /\ store.remainder = last.before.remainder \ RemindersOf(last.before, last.arg.id)
        ELSE ~last.ok /\ store.remainder = last.before.remainder

\* C22: after removeTask(id), returned or failed, either the task row and
\* all its reminders are gone or the task row and all its reminders are
\* still there.
C22_RemoveTaskAtomic ==
    RemovedTask /\ TaskExists(last.before, last.arg.id) =>
        \/ ~TaskExists(store, last.arg.id) /\ RemindersOf(store, last.arg.id) = {}
        \/ /\ TaskExists(store, last.arg.id)
           /\ RemindersOf(store, last.arg.id) = RemindersOf(last.before, last.arg.id)

DeletedCompleted == last.n > 0 /\ last.fn = "deleteCompletedTasks"

\* C23: deleteCompletedTasks removes exactly the tasks whose status is
\* 'Completed' and leaves every other task, and the reminders of the other
\* tasks, unchanged.
C23_DeleteCompletedExactly ==
    DeletedCompleted =>
        /\ store.task = {t \in last.before.task : t.task_status # Completed}
        /\ \A t \in store.task : RemindersOf(store, t.id) = RemindersOf(last.before, t.id)

\* A task has been deleted by the last call
TaskDeleted == last.n > 0 /\ IdsOf(last.before, "task") \ IdsOf(store, "task") # {}

\* C24: every reminder's task_id references an existing task, whatever
\* mutations were called and whether they returned or failed.
C24_ReminderHasTask ==
    \A r \in store.remainder : TaskExists(store, r.task_id)

\* A task that had a reminder has been removed
C24_Witness ==
    /\ TaskDeleted /\ last.ok
    /\ \E id \in IdsOf(last.before, "task") \ IdsOf(store, "task") : RemindersOf(last.before, id) # {}

\* C25: every person whose task_id is set references an existing task,
\* whatever mutations were called and whether they returned or failed.
C25_PersonHasTask ==
    \A p \in store.person : p.task_id # 0 => TaskExists(store, p.task_id)

\* deleteCompletedTasks has deleted a task while a person holds another task
C25_Witness ==
    /\ TaskDeleted /\ DeletedCompleted /\ last.ok
    /\ \E p \in store.person : p.task_id # 0

(***************************************************************************)
(* The statements and the results of the query functions (QuerySpec)       *)
(***************************************************************************)
Queried == last.n > 0 /\ last.fn \in Queries

\* The filters of each function, and those the caller supplied: a key of the
\* options object; for the positional arguments of getPersons, a flag that
\* is set and a task_id that is not null
FiltersOf(fn) ==
    CASE fn = "getPersons" -> {"filterEmptyTasks", "task_id"}
      [] fn = "getTasks" -> {"id", "assignedTo", "relatedChannel", "taskStatus"}
      [] fn = "getChannels" -> {"id"}
      [] fn = "getRemainder" -> {"id", "task_id"}
      [] fn = "getTaskDetailsTable" -> {"assignedTo", "taskStatus", "relatedChannel"}
      [] fn = "getPersonDetailsTable" -> {"filterEmptyTasks"}
      [] fn = "getChannelDetailsTable" -> {}

SuppliedFilters(fn, o) ==
    {k \in FiltersOf(fn) \cap DOMAIN o :
        IF k = "filterEmptyTasks" THEN o[k]
        ELSE IF fn = "getPersons" THEN o[k] # 0
        ELSE TRUE}

\* C26: for every query function and every combination of supplied and
\* omitted filters, the WHERE clause is the conjunction of exactly one
\* condition per supplied filter (no WHERE clause when none is supplied) and
\* the value of every condition is a parameter present in the bound values.
\* Violated by getPersons: with a task_id the text is `AND task_id = @taskId`
\* when filterEmptyTasks is off, the condition of filterEmptyTasks is replaced
\* when it is on, and @taskId is not among the values bound.
C26_WhereIsTheSuppliedFilters ==
    (Queried /\ last.fn \in {"getPersons", "getTasks", "getChannels", "getRemainder", "getTaskDetailsTable"}) =>
        LET supplied == SuppliedFilters(last.fn, last.arg)
            conditions == last.stmt.conditions
        IN  /\ {c.filter : c \in conditions} = supplied
            /\ Cardinality(conditions) = Cardinality(supplied)
            /\ last.stmt.keyword = (IF supplied = {} THEN "" ELSE "WHERE")
            /\ \A c \in conditions : c.param # "" => c.param \in last.stmt.params

\* The columns a statement on the entity may be ordered by
AllowList(fn) ==
    CASE fn \in {"getPersons", "getPersonDetailsTable"} -> {"name", "person.name"}
      [] fn = "getTasks" -> Columns("task")
      [] fn = "getChannels" -> Columns("channel")
      [] fn = "getRemainder" -> Columns("remainder")
      [] fn = "getTaskDetailsTable" -> {"task.title", "task.task_status", "task.start_date", "task.deadline"}
      [] fn = "getChannelDetailsTable" -> {"channel.channel_name"}

\* C27: for every query function and every orderBy and sort the caller
\* gives, the column and the direction in the statement text are members of
\* the entity's allow-list of columns and of {ASC, DESC}.  Violated: orderBy
\* and sort are spliced into the text as given.
C27_OrderByIsAllowListed ==
    Queried => /\ last.stmt.orderBy \in AllowList(last.fn)
               /\ last.stmt.sort \in Sorts

\* C28: in the Task view the sort column is one of task.title,
\* task.task_status, task.start_date, task.deadline: a sortBy among title,
\* task_status, start_date, deadline selects its column, an omitted or any
\* other sortBy selects task.title.
C28_TaskViewSortColumn ==
    (Queried /\ last.fn = "getTaskDetailsTable") =>
        LET column == last.stmt.orderBy
            given == "sortBy" \in DOMAIN last.arg
        IN  /\ column \in {"task.title", "task.task_status", "task.start_date", "task.deadline"}
            /\ (given /\ last.arg.sortBy = "task_status") => column = "task.task_status"
            /\ (given /\ last.arg.sortBy = "start_date") => column = "task.start_date"
            /\ (given /\ last.arg.sortBy = "deadline") => column = "task.deadline"
            /\ (given /\ last.arg.sortBy = "title") => column = "task.title"
            /\ (~given \/ last.arg.sortBy \notin {"title", "task_status", "start_date", "deadline"})
                    => column = "task.title"

\* A sortBy outside the four keys was given and the rows came back ordered
\* by title
C28_Witness ==
    /\ Queried /\ last.fn = "getTaskDetailsTable" /\ last.ok
    /\ "sortBy" \in DOMAIN last.arg
    /\ last.arg.sortBy = "id"
    /\ last.stmt.orderBy = "task.title"
    /\ Len(last.rows) > 1

\* C29: when the caller supplies no limit every query returns at most 50
\* rows, and the table each controller caches holds at most 50 rows.
C29_DefaultLimit ==
    /\ (Queried /\ "limit" \notin DOMAIN last.arg) => Len(last.rows) <= 50
    /\ \A c \in Controllers :
        /\ Len(table[c]) <= 50
        /\ \A i \in 1..Len(assignments[c]) : Len(assignments[c][i].rows) <= 50

\* A query without a limit whose filter selects 51 rows returned 50, and a
\* controller caches 50 of the 51 rows of its view
C29_Witness ==
    /\ Cardinality(store.person) = 51
    /\ Len(table["A"]) = 50
    /\ Queried /\ last.ok /\ "limit" \notin DOMAIN last.arg
    /\ last.fn = "getTasks" /\ "assignedTo" \in DOMAIN last.arg
    /\ Cardinality({t \in store.task : t.assigned_to = last.arg.assignedTo}) = 51
    /\ Len(last.rows) = 50

PersonViewed == Queried /\ last.fn = "getPersonDetailsTable" /\ last.ok

\* The number of rows of a result with the name and the "Is Active"
RowsWith(rows, name, active) ==
    Cardinality({i \in 1..Len(rows) : rows[i].Name = name /\ rows[i].IsActive = active})

\* C30: the Person view has exactly one row per person, also when the
\* person's task has several reminders; "Is Active" is 1 exactly when the
\* person's task_id references an existing task and 0 otherwise, with null
\* task, channel and reminder fields when it is 0; with filterEmptyTasks the
\* view holds exactly the persons with a non-null task.  (Rows carry no id:
\* the rows are counted per name, with a limit that cuts nothing.)
C30_PersonViewRows ==
    (PersonViewed /\ last.stmt.limit >= Cardinality(store.person)) =>
        LET flag == Option(last.arg, "filterEmptyTasks", FALSE)
            persons == {p \in store.person : ~flag \/ p.task_id # 0}
            Active(p) == \E t \in store.task : t.id = p.task_id
        IN  /\ Len(last.rows) = Cardinality(persons)
            /\ \A name \in {p.name : p \in store.person} :
                /\ RowsWith(last.rows, name, 1) = Cardinality({p \in persons : p.name = name /\ Active(p)})
                /\ RowsWith(last.rows, name, 0) = Cardinality({p \in persons : p.name = name /\ ~Active(p)})
            /\ \A i \in 1..Len(last.rows) :
                /\ last.rows[i].IsActive \in {0, 1}
                /\ last.rows[i].IsActive = 0 =>
                    /\ last.rows[i].CurrentTask = {}
                    /\ last.rows[i].CurrentTaskDeadline = {}
                    /\ last.rows[i].CurrentChannel = {}
                    /\ last.rows[i].Remainder = {}
                /\ last.rows[i].IsActive = 1 => last.rows[i].CurrentTask # {}

\* The view of a store where a person's task has several reminders and
\* another person has no task, with filterEmptyTasks
C30_Witness ==
    /\ PersonViewed /\ last.stmt.limit >= Cardinality(store.person)
    /\ Option(last.arg, "filterEmptyTasks", FALSE)
    /\ \E p \in store.person : p.task_id = 0
    /\ \E p \in store.person : Cardinality(RemindersOf(store, p.task_id)) > 1
    /\ \E i \in 1..Len(last.rows) : Cardinality(last.rows[i].Remainder) > 1
    /\ Len(last.rows) < Cardinality(store.person)

\* The row of the Channel view the claim describes for a channel: the tasks
\* of the channel whose status is not 'Completed', a task without a status
\* among them, and the persons who hold one of them
ActiveTasksOf(db, c) == {t \in db.task : t.related_channel = c.id /\ t.task_status # Completed}

ClaimedChannelRow(db, c) ==
    [ChannelTitle |-> c.channel_name,
     NumberOfActiveDevs |-> Cardinality({p \in db.person : \E t \in ActiveTasksOf(db, c) : p.task_id = t.id}),
     NumberOfActiveTasks |-> Cardinality(ActiveTasksOf(db, c))]

ChannelViewed ==
    /\ Queried /\ last.fn = "getChannelDetailsTable" /\ last.ok
    /\ last.stmt.limit >= Cardinality(store.channel)

\* C31: the Channel view has exactly one row per channel, whose active-task
\* count is the number of tasks of the channel whose status is not
\* 'Completed' (a task with no status counts) and whose active-dev count is
\* the number of persons who hold one of those tasks.  Violated: the join
\* condition task_status != 'Completed' is not true of a NULL status, so a
\* task without a status and its holder are not counted.
C31_ChannelViewCounts ==
    ChannelViewed =>
        /\ Len(last.rows) = Cardinality(store.channel)
        /\ \A c \in store.channel :
            Cardinality({i \in 1..Len(last.rows) : last.rows[i] = ClaimedChannelRow(store, c)})
                = Cardinality({d \in store.channel : ClaimedChannelRow(store, d) = ClaimedChannelRow(store, c)})

C36_NoTaskFilterShowsEveryReminder ==
    \A c \in Controllers :
        (Kind(c) = "Remainder" /\ Drained(c) /\ filters[c].taskId = 0) =>
            table[c] = getRemainder(store, sort[c], FALSE, 0, DefaultLimit)

\* The step is a refresh() of the controller reading the store
RefreshReads(c) == Len(assignments'[c]) > Len(assignments[c])

\* C37: filter and sort settings change at the call of addFilter / addSort /
\* resetFilters / resetSort, outside the queue, and a refresh uses the
\* settings current when it executes: the rows an operation's refresh reads
\* are those of the sort and the filters of that moment, whenever the
\* operation was submitted.
C37_SettingsReadAtExecution ==
    [][\A c \in Controllers :
        /\ (sort'[c] # sort[c] \/ filters'[c] # filters[c]) =>
                /\ calls' = calls + 1
                /\ pendingOperation'[c] = Append(pendingOperation[c], QueuedOp("refresh", NoArg))
                /\ UNCHANGED <<store, table, assignments>>
        /\ RefreshReads(c) =>
                /\ UNCHANGED <<sort, filters, store>>
                /\ assignments'[c][Len(assignments'[c])].rows
                        = RefreshQuery(store, Kind(c), sort[c], filters[c])]_vars

\* The table of a controller comes from the refresh of a mutation that was
\* submitted before every change of the settings, and it is in the order set
\* after that submission
C37_Witness ==
    \E c \in Controllers : \E i \in 2..Len(Chain(c)) :
        /\ IsMutation(Chain(c)[i])
        /\ \A j \in 2..i : IsMutation(Chain(c)[j])
        /\ tableFrom[c].owner = i
        /\ sort[c] = "DESC"
        /\ table[c] = RefreshQuery(store, Kind(c), "DESC", filters[c])
        /\ table[c] # RefreshQuery(store, Kind(c), "ASC", filters[c])

\* C40: moving the cursor changes only the cursor; submitting a mutation
\* changes only the pending chain at the call; the cached table is replaced
\* only when a refresh completes.
C40_NoSynchronousEffect ==
    [][\A c \in Controllers :
        /\ selected'[c] # selected[c] =>
                UNCHANGED <<table, filters, sort, pendingOperation, assignments, store>>
        /\ (Len(pendingOperation'[c]) > Len(pendingOperation[c])
                /\ IsMutation(pendingOperation'[c][Len(pendingOperation'[c])])) =>
                /\ pendingOperation'[c][Len(pendingOperation'[c])].status = "pending"
                /\ SubSeq(pendingOperation'[c], 1, Len(pendingOperation[c])) = pendingOperation[c]
                /\ UNCHANGED <<table, selected, filters, sort, assignments, store>>
        /\ table'[c] # table[c] =>
                /\ assignments[c] # <<>>
                /\ table'[c] = assignments[c][1].rows
                /\ assignments'[c] = Tail(assignments[c])]_vars

\* The cursor has moved and a submitted mutation has changed the store while
\* the cached table is still the one read before
C40_Witness ==
    \E c \in Controllers : \E i \in 2..Len(Chain(c)) :
        /\ selected[c] # 0
        /\ IsMutation(Chain(c)[i])
        /\ Chain(c)[i].status = "mutated"
        /\ table[c] # <<>>
        /\ table[c] # RefreshQuery(store, Kind(c), sort[c], filters[c])

(***************************************************************************)
(* The operations on the selected record (SelectSpec)                     *)
(***************************************************************************)
\* The callback of operation i of the chain of c is called in this step
Executes(c, i) ==
    /\ Chain(c)[i].status = "pending"
    /\ pendingOperation'[c][i].status \in {"mutated", "failed"}

\* The row has the values the updates supply
Carries(row, updates) ==
    \A f \in DOMAIN updates \cap DOMAIN row : updates[f] # 0 => row[f] = updates[f]

\* C33: updateCurrentX(updates) with a record selected updates that record's
\* row: when the queued update has run on a store that still has the record,
\* a row of the entity carries the supplied fields (the row of the record,
\* where the table row names it) and no row is added.
C33_UpdatesSelectedRecord ==
    [][\A c \in Controllers : \A i \in 1..Len(Chain(c)) :
        LET op == Chain(c)[i]
        IN  (/\ "current" \in DOMAIN op
             /\ op.current # <<>>
             /\ Kind(c) = "Remainder" => op.current[1].id \in IdsOf(store, TableOf(op.fn))
             /\ Executes(c, i)
             /\ pendingOperation'[c][i].status = "mutated") =>
                /\ IdsOf(store', TableOf(op.fn)) = IdsOf(store, TableOf(op.fn))
                /\ \E r \in store'[TableOf(op.fn)] :
                        /\ Carries(r, op.updates)
                        /\ Kind(c) = "Remainder" => r.id = op.current[1].id]_vars

\* C34: removeSelectedX() with a record selected deletes exactly one row, the
\* row of that record, when the queued removal runs.
C34_RemovesSelectedRecord ==
    [][\A c \in Controllers : \A i \in 1..Len(Chain(c)) :
        LET op == Chain(c)[i]
            tb == TableOf(op.fn)
        IN  (/\ op.fn = RemoveOf(c)
             /\ Kind(c) = "Remainder" => op.arg.id \in IdsOf(store, tb)
             /\ Executes(c, i)) =>
                /\ pendingOperation'[c][i].status = "mutated"
                /\ Cardinality(store'[tb]) = Cardinality(store[tb]) - 1
                /\ Kind(c) = "Remainder" => op.arg.id \notin IdsOf(store', tb)]_vars

\* C35: with the filter taskId = t set on the Person controller and every
\* refresh completed, the table holds only the persons whose task is t.
C35_TaskFilterOnPersons ==
    (Drained("A") /\ filters["A"].taskId # 0) =>
        Len(table["A"]) = Cardinality({p \in store.person : p.task_id = filters["A"].taskId})

\* C38: the record an operation on the selection acts on is the one under the
\* cursor at the call: a queued operation keeps its argument, the argument is
\* made from the row under the cursor of the state of the call, and the
\* callback applies the model function to that argument whatever the table
\* and the cursor are by then.
C38_TargetFixedAtCall ==
    [][\A c \in Controllers :
        /\ \A i \in 1..Len(Chain(c)) :
                /\ pendingOperation'[c][i].fn = Chain(c)[i].fn
                /\ pendingOperation'[c][i].arg = Chain(c)[i].arg
                /\ (IsMutation(Chain(c)[i]) /\ Executes(c, i)) =>
                        store' = CallModel(store, Chain(c)[i].fn, Chain(c)[i].arg).db
        /\ Len(pendingOperation'[c]) > Len(Chain(c)) =>
                LET op == pendingOperation'[c][Len(pendingOperation'[c])]
                IN  /\ op.fn = RemoveOf(c) => op.arg = Arg(SelectedId(c), 0, 0, 0, 0)
                    /\ op.fn = UpsertOf(c) =>
                            /\ op.current = Current(c)
                            /\ op.arg = Spread(c, Current(c), op.updates)]_vars

\* A removal has deleted the row that was under the cursor at the call while
\* the cursor is on another row of the table that still shows the deleted one
C38_Witness ==
    \E c \in Controllers : \E i \in 2..Len(Chain(c)) :
        /\ Kind(c) = "Remainder"
        /\ Chain(c)[i].fn = RemoveOf(c)
        /\ Chain(c)[i].status = "mutated"
        /\ Chain(c)[i].arg.id \notin IdsOf(store, "remainder")
        /\ table[c] # <<>>
        /\ table[c][1].id = Chain(c)[i].arg.id
        /\ HasSelected(c)
        /\ selected[c] # 0
        /\ SelectedId(c) \in IdsOf(store, "remainder")

\* C39: removeSelectedX() without a row under the cursor throws at the call:
\* nothing is queued and the table, the cursor and the store stay as they are.
C39_NoSelectionThrows ==
    [][\A c \in Controllers :
        ~HasSelected(c) =>
            /\ \/ Len(pendingOperation'[c]) = Len(Chain(c))
               \/ pendingOperation'[c][Len(pendingOperation'[c])].fn # RemoveOf(c)
            /\ (last' # last /\ last'.c = c) =>
                    /\ last'.threw
                    /\ UNCHANGED <<pendingOperation, table, selected, store, assignments>>]_vars

\* removeSelectedX() has thrown with the cursor behind the last row of a
\* table that has rows
C39_Witness ==
    /\ last.n = 1
    /\ last.threw
    /\ last.rows > 0
    /\ last.selected >= last.rows
    /\ store.remainder # {}

====
